---- MODULE Spec2Model ----
(***************************************************************************)
(* RedisSaver: a checkpoint saver over Redis hashes                        *)
(* (examples/streaming-tokens-without-langchain.ipynb, cell "Checkpointer  *)
(* implementation").                                                       *)
(*                                                                         *)
(* Python str values are sequences of one-character strings, so that       *)
(* f-string key construction, str.split(":"), str comparison and the glob  *)
(* match of KEYS are computed character by character.  The literal prefix  *)
(* "checkpoint" of every key and pattern is kept as one token.             *)
(* The Redis client is the default one (decode_responses=False), as in the *)
(* notebook: KEYS and HGETALL answer with bytes.                           *)
(***************************************************************************)
EXTENDS Integers, Sequences, FiniteSets, TLC

VARIABLES store, puts, ret, saver, conns, trace, procs

vars == <<store, puts, ret, saver, conns, trace, procs>>

(***************************************************************************)
(* Bounds of the model.                                                    *)
(***************************************************************************)
\* number of put calls in a behaviour of Spec
MaxPuts == 2
\* number of put calls in a behaviour of SpecChain
MaxChain == 5

(***************************************************************************)
(* Python values.                                                          *)
(***************************************************************************)
\* Python None where a str is expected (config.get("thread_ts"))
None == <<"None">>

\* Python None where a RunnableConfig is expected (parent_config, before, config)
NoConfig == [thread_id |-> None, thread_ts |-> None]

\* bool(x) of an Optional[str]: None and "" are falsy
Truthy(x) == x # None /\ x # <<>>

\* code points of the characters the model uses
Ord(c) ==
  CASE c = "*" -> 42
    [] c = ":" -> 58
    [] c = "a" -> 97
    [] c = "b" -> 98
    [] c = "c" -> 99

\* Python str < str: code point by code point, a proper prefix is smaller
StrLess(s, t) ==
  \E i \in 1..(Len(t)) :
    /\ i <= Len(s) + 1
    /\ \A j \in 1..(i - 1) : s[j] = t[j]
    /\ \/ i = Len(s) + 1
       \/ Ord(s[i]) < Ord(t[i])

\* s.split(":")[-1]: what follows the last ':' (all of s when it has none)
LastSegment(s) ==
  LET colons == {i \in 1..Len(s) : s[i] = ":"}
  IN IF colons = {} THEN s
     ELSE SubSeq(s, (CHOOSE i \in colons : \A j \in colons : j <= i) + 1, Len(s))

\* a dict key of type str / of type bytes: in Python "x" == b"x" is False
Str(x) == <<"str", x>>
Bytes(x) == <<"bytes", x>>

\* what the client sends for an argument: a str is encoded, bytes go as they are
Encode(s) == IF Len(s) = 2 /\ s[1] = "bytes" THEN s ELSE Bytes(s)

\* bytes.decode()
Decode(b) == b[2]

(***************************************************************************)
(* The values the serializer is handed.  A dict whose fields are           *)
(* JSON-native (a checkpoint, a metadata object) is a record; every other  *)
(* value is a record with one field, named after its Python type:          *)
(* [int |-> n], [str |-> s], [bytes |-> b], [bytearray |-> b] (b a         *)
(* sequence of numbers 0..255), [list |-> <<v, ...>>], and [object |-> o]  *)
(* for an object json cannot serialize.                                    *)
(***************************************************************************)
TypeNames == {"int", "str", "bytes", "bytearray", "list", "object"}

\* type(obj)
TypeOf(obj) ==
  IF Cardinality(DOMAIN obj) = 1 /\ DOMAIN obj \subseteq TypeNames
    THEN CHOOSE t \in DOMAIN obj : TRUE
    ELSE "dict"

\* isinstance(obj, (bytes, bytearray))
IsBinary(obj) == TypeOf(obj) \in {"bytes", "bytearray"}

\* the byte sequence of a bytes or bytearray value
Payload(obj) == IF TypeOf(obj) = "bytes" THEN obj.bytes ELSE obj.bytearray

\* Python ==: bytes and bytearray compare by content, lists item by item, all
\* else by type and value
RECURSIVE PyEq(_, _)
PyEq(x, y) ==
  IF IsBinary(x) /\ IsBinary(y) THEN Payload(x) = Payload(y)
  ELSE IF TypeOf(x) = "list" /\ TypeOf(y) = "list"
    THEN /\ Len(x.list) = Len(y.list)
         /\ \A i \in 1..Len(x.list) : PyEq(x.list[i], y.list[i])
  ELSE x = y

HexDigits == <<"0", "1", "2", "3", "4", "5", "6", "7", "8", "9", "a", "b", "c", "d", "e", "f">>

\* the hex digits in upper case, which bytes.fromhex accepts as well
UpperDigits == <<"0", "1", "2", "3", "4", "5", "6", "7", "8", "9", "A", "B", "C", "D", "E", "F">>

\* bytes.hex(): two lower-case digits per byte, high digit first, no prefix
RECURSIVE Hex(_)
Hex(b) ==
  IF b = <<>> THEN <<>>
  ELSE <<HexDigits[(Head(b) \div 16) + 1], HexDigits[(Head(b) % 16) + 1]>> \o Hex(Tail(b))

\* bytes.hex() in upper case
RECURSIVE HexUpper(_)
HexUpper(b) ==
  IF b = <<>> THEN <<>>
  ELSE <<UpperDigits[(Head(b) \div 16) + 1], UpperDigits[(Head(b) % 16) + 1]>> \o HexUpper(Tail(b))

\* the value of a hex digit of either case, -1 for any other character
DigitValue(c) ==
  IF \E i \in 1..16 : HexDigits[i] = c THEN (CHOOSE i \in 1..16 : HexDigits[i] = c) - 1
  ELSE IF \E i \in 1..16 : UpperDigits[i] = c THEN (CHOOSE i \in 1..16 : UpperDigits[i] = c) - 1
  ELSE -1

\* bytes.fromhex(s) raises ValueError: an odd number of digits or a non-digit
FromHexRaises(s) ==
  \/ Len(s) % 2 = 1
  \/ \E i \in 1..Len(s) : DigitValue(s[i]) = -1

\* bytes.fromhex(s)
FromHex(s) ==
  [i \in 1..(Len(s) \div 2) |-> 16 * DigitValue(s[2 * i - 1]) + DigitValue(s[2 * i])]

(***************************************************************************)
(* JsonAndBinarySerializer.  A JSON text is <<"json", tree>>, tree being   *)
(* the value json.dumps walked, with what _default gave in the place of    *)
(* every value that is not JSON-native; any other text is a sequence of    *)
(* characters.                                                             *)
(***************************************************************************)
\* _default(obj) for bytes and bytearray: the constructor call that rebuilds it
Default(obj) ==
  [lc |-> 2, type |-> "constructor", id |-> <<"builtins", TypeOf(obj)>>,
   method |-> "fromhex", args |-> <<Hex(Payload(obj))>>]

\* json.dumps meets a value that neither it nor _default can serialize
RECURSIVE SuperDumpsRaises(_)
SuperDumpsRaises(obj) ==
  CASE TypeOf(obj) = "object" -> TRUE
    [] TypeOf(obj) = "list" -> \E i \in 1..Len(obj.list) : SuperDumpsRaises(obj.list[i])
    [] OTHER -> FALSE

\* the tree json.dumps(obj, default=self._default) writes out
RECURSIVE ToJson(_)
ToJson(obj) ==
  CASE IsBinary(obj) -> Default(obj)
    [] TypeOf(obj) = "list" -> [list |-> [i \in 1..Len(obj.list) |-> ToJson(obj.list[i])]]
    [] OTHER -> obj

\* json.loads(s, object_hook=self._reviver) on a tree: a constructor dict is
\* replaced by what its constructor call returns
RECURSIVE Revive(_)
Revive(tree) ==
  CASE TypeOf(tree) = "list" -> [list |-> [i \in 1..Len(tree.list) |-> Revive(tree.list[i])]]
    [] TypeOf(tree) = "dict" /\ "lc" \in DOMAIN tree /\ "method" \in DOMAIN tree ->
         IF tree.id[2] = "bytes" THEN [bytes |-> FromHex(tree.args[1])]
         ELSE [bytearray |-> FromHex(tree.args[1])]
    [] OTHER -> tree

\* s is a JSON text written by json.dumps
IsJson(s) == Len(s) = 2 /\ s[1] = "json"

\* s is the text of a JSON number: decimal digits with no leading zero
IsNumber(s) ==
  /\ s # <<>>
  /\ \A i \in 1..Len(s) : s[i] \in {HexDigits[d] : d \in 1..10}
  /\ Len(s) > 1 => s[1] # "0"

\* the number a text of decimal digits denotes
RECURSIVE NumberOf(_)
NumberOf(s) ==
  IF s = <<>> THEN 0 ELSE 10 * NumberOf(SubSeq(s, 1, Len(s) - 1)) + DigitValue(s[Len(s)])

\* JsonPlusSerializer.dumps / loads of a structured value: a JSON text
SuperDumps(obj) == <<"json", ToJson(obj)>>
SuperLoadsRaises(s) == ~IsJson(s) /\ ~IsNumber(s)
SuperLoads(s) == IF IsJson(s) THEN Revive(s[2]) ELSE [int |-> NumberOf(s)]

\* dumps(obj) raises (after logging "Serialization error")
DumpsRaises(obj) == ~IsBinary(obj) /\ SuperDumpsRaises(obj)

\* a dumps that writes the hex digits in upper case
DumpsUpper(obj) == IF IsBinary(obj) THEN HexUpper(Payload(obj)) ELSE SuperDumps(obj)

\* dumps(obj)
Dumps(obj) == IF IsBinary(obj) THEN Hex(Payload(obj)) ELSE SuperDumps(obj)

\* loads(s, is_binary) raises (after logging "Deserialization error")
LoadsRaises(s, is_binary) == IF is_binary THEN FromHexRaises(s) ELSE SuperLoadsRaises(s)

\* a loads without the is_binary branch
LoadsIgnoringFlag(s, is_binary) == SuperLoads(s)

\* loads(s, is_binary)
Loads(s, is_binary) == IF is_binary THEN [bytes |-> FromHex(s)] ELSE SuperLoads(s)

(***************************************************************************)
(* The Redis server: a map from keys (bytes) to hashes (field -> value).   *)
(***************************************************************************)
\* glob match of KEYS: '*' matches any run of characters, '?' any one character
RECURSIVE GlobMatch(_, _)
GlobMatch(p, s) ==
  IF p = <<>> THEN s = <<>>
  ELSE IF Head(p) = "*"
    THEN \E i \in 0..Len(s) : GlobMatch(Tail(p), SubSeq(s, i + 1, Len(s)))
  ELSE IF s = <<>> THEN FALSE
  ELSE IF Head(p) = "?" THEN GlobMatch(Tail(p), Tail(s))
  ELSE Head(p) = Head(s) /\ GlobMatch(Tail(p), Tail(s))

\* the keys KEYS pattern answers with, as a set
MatchingKeys(db, pattern) == {k \in DOMAIN db : GlobMatch(pattern, Decode(k))}

\* all orders of a finite set
RECURSIVE Orders(_)
Orders(S) ==
  IF S = {} THEN {<<>>}
  ELSE UNION {{<<x>> \o o : o \in Orders(S \ {x})} : x \in S}

\* conn.keys(pattern): the matching keys in an order the server chooses
Keys(db, pattern) == Orders(MatchingKeys(db, pattern))

\* conn.hgetall(key): the hash at key, the empty dict when there is none
HGetAll(db, key) ==
  IF Encode(key) \in DOMAIN db THEN db[Encode(key)] ELSE <<>>

\* HSET key field value [field value ...] with no other key touched
HSetOnlyKey(db, key, mapping) ==
  LET new == [f \in {Encode(n[2]) : n \in DOMAIN mapping} |-> Encode(mapping[Str(f[2])])]
  IN [k \in {Encode(key)} |-> new]

\* an HSET that sets the first field it is given and drops the others
HSetFirstField(db, key, mapping) ==
  LET k0 == Encode(key)
      old == IF k0 \in DOMAIN db THEN db[k0] ELSE <<>>
      names == {Encode(n[2]) : n \in {Str("checkpoint")} \cap DOMAIN mapping}
      new == [f \in (DOMAIN old) \cup names |->
                IF f \in names THEN Encode(mapping[Str(f[2])]) ELSE old[f]]
  IN [k \in (DOMAIN db) \cup {k0} |-> IF k = k0 THEN new ELSE db[k]]

\* conn.hset(key, mapping=...): one HSET command, sets the given fields of the
\* hash at key (creating it), keeps its other fields and every other key
HSet(db, key, mapping) ==
  LET k0 == Encode(key)
      old == IF k0 \in DOMAIN db THEN db[k0] ELSE <<>>
      names == {Encode(n[2]) : n \in DOMAIN mapping}
      new == [f \in (DOMAIN old) \cup names |->
                IF f \in names THEN Encode(mapping[Str(f[2])]) ELSE old[f]]
  IN [k \in (DOMAIN db) \cup {k0} |-> IF k = k0 THEN new ELSE db[k]]

(***************************************************************************)
(* RedisSaver.                                                             *)
(***************************************************************************)
\* f"checkpoint:{thread_id}:{ts}"
KeyOf(thread_id, ts) == <<"checkpoint", ":">> \o thread_id \o <<":">> \o ts

\* f"checkpoint:{thread_id}:*"
PatternOf(thread_id) == <<"checkpoint", ":">> \o thread_id \o <<":", "*">>

\* the sort key of get_tuple and list: k.decode().split(":")[-1]
SortKey(k) == LastSegment(Decode(k))

\* a put that stores the checkpoint's own marker as its parent
PutMappingOwnParent(config, checkpoint, metadata) ==
  (Str("checkpoint") :> Dumps(checkpoint)) @@
  (Str("metadata") :> Dumps(metadata)) @@
  (Str("parent_ts") :> checkpoint.ts)

\* the mapping put hands to hset
PutMapping(config, checkpoint, metadata) ==
  (Str("checkpoint") :> Dumps(checkpoint)) @@
  (Str("metadata") :> Dumps(metadata)) @@
  (Str("parent_ts") :> IF Truthy(config.thread_ts) THEN config.thread_ts ELSE <<>>)

\* a put that writes under the incoming identity's version
PutKeyOfConfig(config, checkpoint) ==
  KeyOf(config.thread_id, IF Truthy(config.thread_ts) THEN config.thread_ts ELSE <<>>)

\* the key put writes
PutKey(config, checkpoint) == KeyOf(config.thread_id, checkpoint.ts)

\* the store after put / aput
PutStore(db, config, checkpoint, metadata) ==
  HSet(db, PutKey(config, checkpoint), PutMapping(config, checkpoint, metadata))

\* the identity put / aput returns
PutReturn(config, checkpoint) ==
  [thread_id |-> config.thread_id, thread_ts |-> checkpoint.ts]

\* max(all_keys, key=...): the first of the keys whose sort key is greatest
PyMax(all_keys) ==
  all_keys[CHOOSE i \in 1..Len(all_keys) :
             /\ \A j \in 1..Len(all_keys) : ~StrLess(SortKey(all_keys[i]), SortKey(all_keys[j]))
             /\ \A j \in 1..(i - 1) : StrLess(SortKey(all_keys[j]), SortKey(all_keys[i]))]

\* what a call hands back: the exception it raised ("" for none) and its values
Returned(value) == [raised |-> "", value |-> value]
Raised(exc) == [raised |-> exc, value |-> <<>>]

\* a get_tuple that hands back the identity of the record it read: that of
\* the call with the version taken from the key
ReadTupleResolved(db, config, key) ==
  LET checkpoint_data == HGetAll(db, key)
  IN IF DOMAIN checkpoint_data = {} THEN Returned(<<>>)
     ELSE IF Bytes("checkpoint") \notin DOMAIN checkpoint_data
             \/ Bytes("metadata") \notin DOMAIN checkpoint_data
       THEN Raised("KeyError")
     ELSE IF LoadsRaises(Decode(checkpoint_data[Bytes("checkpoint")]), FALSE)
             \/ LoadsRaises(Decode(checkpoint_data[Bytes("metadata")]), FALSE)
       THEN Raised("JSONDecodeError")
     ELSE LET parent_ts == IF Bytes("parent_ts") \in DOMAIN checkpoint_data
                             THEN Decode(checkpoint_data[Bytes("parent_ts")])
                             ELSE <<>>
          IN Returned(<<[config |-> [config EXCEPT !.thread_ts = LastSegment(key)],
                         checkpoint |-> Loads(Decode(checkpoint_data[Bytes("checkpoint")]), FALSE),
                         metadata |-> Loads(Decode(checkpoint_data[Bytes("metadata")]), FALSE),
                         parent_config |->
                           IF Truthy(parent_ts)
                             THEN [thread_id |-> config.thread_id, thread_ts |-> parent_ts]
                             ELSE NoConfig]>>)

\* get_tuple from the hgetall on: the tuple of the hash at key, None when empty
ReadTuple(db, config, key) ==
  LET checkpoint_data == HGetAll(db, key)
  IN IF DOMAIN checkpoint_data = {} THEN Returned(<<>>)
     ELSE IF Bytes("checkpoint") \notin DOMAIN checkpoint_data
             \/ Bytes("metadata") \notin DOMAIN checkpoint_data
       THEN Raised("KeyError")
     ELSE IF LoadsRaises(Decode(checkpoint_data[Bytes("checkpoint")]), FALSE)
             \/ LoadsRaises(Decode(checkpoint_data[Bytes("metadata")]), FALSE)
       THEN Raised("JSONDecodeError")
     ELSE LET parent_ts == IF Bytes("parent_ts") \in DOMAIN checkpoint_data
                             THEN Decode(checkpoint_data[Bytes("parent_ts")])
                             ELSE <<>>
          IN Returned(<<[config |-> config,
                         checkpoint |-> Loads(Decode(checkpoint_data[Bytes("checkpoint")]), FALSE),
                         metadata |-> Loads(Decode(checkpoint_data[Bytes("metadata")]), FALSE),
                         parent_config |->
                           IF Truthy(parent_ts)
                             THEN [thread_id |-> config.thread_id, thread_ts |-> parent_ts]
                             ELSE NoConfig]>>)

\* a get_tuple that takes every version but None for the version of a key
GetTupleOnNotNone(db, config, all_keys) ==
  IF config.thread_ts # None
    THEN ReadTuple(db, config, KeyOf(config.thread_id, config.thread_ts))
  ELSE IF all_keys = <<>> THEN Returned(<<>>)
  ELSE ReadTuple(db, config, Decode(PyMax(all_keys)))

\* get_tuple / aget_tuple, the keys of the thread handed over in the order the
\* server gave them (read only when the identity has no version)
GetTupleOn(db, config, all_keys) ==
  IF Truthy(config.thread_ts)
    THEN ReadTuple(db, config, KeyOf(config.thread_id, config.thread_ts))
  ELSE IF all_keys = <<>> THEN Returned(<<>>)
  ELSE ReadTuple(db, config, Decode(PyMax(all_keys)))

\* everything get_tuple(config) can hand back on db
GetTupleOutcomes(db, config) ==
  {GetTupleOn(db, config, all_keys) : all_keys \in Keys(db, PatternOf(config.thread_id))}

\* [k for k in keys if pred(k)]
RECURSIVE SelectBefore(_, _)
SelectBefore(keys, ts) ==
  IF keys = <<>> THEN <<>>
  ELSE (IF StrLess(SortKey(Head(keys)), ts) THEN <<Head(keys)>> ELSE <<>>)
         \o SelectBefore(Tail(keys), ts)

\* the descending sequence sorted with x put in, after the keys that do not
\* sort below it
RECURSIVE InsertDesc(_, _)
InsertDesc(sorted, x) ==
  IF sorted = <<>> THEN <<x>>
  ELSE IF StrLess(SortKey(Head(sorted)), SortKey(x)) THEN <<x>> \o sorted
  ELSE <<Head(sorted)>> \o InsertDesc(Tail(sorted), x)

\* sorted(keys, key=..., reverse=True): descending and stable
RECURSIVE SortedDesc(_)
SortedDesc(keys) ==
  IF keys = <<>> THEN <<>>
  ELSE InsertDesc(SortedDesc(SubSeq(keys, 1, Len(keys) - 1)), keys[Len(keys)])

\* keys[:limit] for limit >= 0
Truncate(keys, n) == SubSeq(keys, 1, IF n < Len(keys) THEN n ELSE Len(keys))

\* a loop that looks the fields up by the bytes names the server answers with
RECURSIVE ListLoopBytesNames(_, _, _)
ListLoopBytesNames(db, thread_id, keys) ==
  IF keys = <<>> THEN <<>>
  ELSE LET key == Head(keys)
           data == HGetAll(db, key)
           thread_ts == LastSegment(Decode(key))
       IN (IF DOMAIN data # {} /\ Bytes("checkpoint") \in DOMAIN data
                               /\ Bytes("metadata") \in DOMAIN data
             THEN <<[config |-> [thread_id |-> thread_id, thread_ts |-> thread_ts],
                     checkpoint |-> Loads(Decode(data[Bytes("checkpoint")]), FALSE),
                     metadata |-> Loads(Decode(data[Bytes("metadata")]), FALSE),
                     parent_config |-> NoConfig]>>
             ELSE <<>>)
          \o ListLoopBytesNames(db, thread_id, Tail(keys))

\* the for loop of list: one hgetall per key, a tuple yielded when the dict
\* passes the test at line 633
RECURSIVE ListLoop(_, _, _)
ListLoop(db, thread_id, keys) ==
  IF keys = <<>> THEN <<>>
  ELSE LET key == Head(keys)
           data == HGetAll(db, key)
           thread_ts == LastSegment(Decode(key))
           has_parent == Str("parent_ts") \in DOMAIN data /\ Decode(data[Str("parent_ts")]) # <<>>
       IN (IF DOMAIN data # {} /\ Str("checkpoint") \in DOMAIN data
                               /\ Str("metadata") \in DOMAIN data
             THEN <<[config |-> [thread_id |-> thread_id, thread_ts |-> thread_ts],
                     checkpoint |-> Loads(Decode(data[Str("checkpoint")]), FALSE),
                     metadata |-> Loads(Decode(data[Str("metadata")]), FALSE),
                     parent_config |->
                       IF has_parent
                         THEN [thread_id |-> thread_id,
                               thread_ts |-> Decode(data[Str("parent_ts")])]
                         ELSE NoConfig]>>
             ELSE <<>>)
          \o ListLoop(db, thread_id, Tail(keys))

\* the thread id list enumerates: the identity's, "*" without an identity
ListThread(config) == IF config # NoConfig THEN config.thread_id ELSE <<"*">>

\* the keys list reads, in reading order: keys0 (what conn.keys answered)
\* filtered by before, sorted and cut to limit; limit is <<>> for None and
\* <<n>> for an int
ListKeys(before, limit, keys0) ==
  LET keys1 == IF before # NoConfig THEN SelectBefore(keys0, before.thread_ts) ELSE keys0
      keys2 == SortedDesc(keys1)
  IN IF limit # <<>> /\ limit[1] # 0 THEN Truncate(keys2, limit[1]) ELSE keys2

\* the comparison with before["configurable"]["thread_ts"] raises: it is None
\* and there is a key to compare
ListRaises(before, keys0) == before # NoConfig /\ before.thread_ts = None /\ keys0 # <<>>

\* list / alist consumed to its end, keys0 being what conn.keys answered
ListOn(db, config, before, limit, keys0) ==
  IF ListRaises(before, keys0) THEN Raised("TypeError")
  ELSE Returned(ListLoop(db, ListThread(config), ListKeys(before, limit, keys0)))

\* everything list(config, before=, limit=) can yield on db
ListOutcomes(db, config, before, limit) ==
  {ListOn(db, config, before, limit, keys0) : keys0 \in Keys(db, PatternOf(ListThread(config)))}

(***************************************************************************)
(* The non-blocking surface: aput, aget_tuple and alist, from their own    *)
(* lines.                                                                  *)
(***************************************************************************)
\* an aput that stores no parent
APutMappingNoParent(config, checkpoint, metadata) ==
  (Str("checkpoint") :> Dumps(checkpoint)) @@
  (Str("metadata") :> Dumps(metadata)) @@
  (Str("parent_ts") :> <<>>)

\* the mapping aput hands to hset
APutMapping(config, checkpoint, metadata) ==
  (Str("checkpoint") :> Dumps(checkpoint)) @@
  (Str("metadata") :> Dumps(metadata)) @@
  (Str("parent_ts") :> IF Truthy(config.thread_ts) THEN config.thread_ts ELSE <<>>)

\* the key aput writes
APutKey(config, checkpoint) == KeyOf(config.thread_id, checkpoint.ts)

\* the store after aput
APutStore(db, config, checkpoint, metadata) ==
  HSet(db, APutKey(config, checkpoint), APutMapping(config, checkpoint, metadata))

\* the identity aput returns
APutReturn(config, checkpoint) ==
  [thread_id |-> config.thread_id, thread_ts |-> checkpoint.ts]

\* aget_tuple from the hgetall on
AReadTuple(db, config, key) ==
  LET checkpoint_data == HGetAll(db, key)
  IN IF DOMAIN checkpoint_data = {} THEN Returned(<<>>)
     ELSE IF Bytes("checkpoint") \notin DOMAIN checkpoint_data
             \/ Bytes("metadata") \notin DOMAIN checkpoint_data
       THEN Raised("KeyError")
     ELSE IF LoadsRaises(Decode(checkpoint_data[Bytes("checkpoint")]), FALSE)
             \/ LoadsRaises(Decode(checkpoint_data[Bytes("metadata")]), FALSE)
       THEN Raised("JSONDecodeError")
     ELSE LET parent_ts == IF Bytes("parent_ts") \in DOMAIN checkpoint_data
                             THEN Decode(checkpoint_data[Bytes("parent_ts")])
                             ELSE <<>>
          IN Returned(<<[config |-> config,
                         checkpoint |-> Loads(Decode(checkpoint_data[Bytes("checkpoint")]), FALSE),
                         metadata |-> Loads(Decode(checkpoint_data[Bytes("metadata")]), FALSE),
                         parent_config |->
                           IF Truthy(parent_ts)
                             THEN [thread_id |-> config.thread_id, thread_ts |-> parent_ts]
                             ELSE NoConfig]>>)

\* aget_tuple, the keys of the thread handed over in the order the server gave
AGetTupleOn(db, config, all_keys) ==
  IF Truthy(config.thread_ts)
    THEN AReadTuple(db, config, KeyOf(config.thread_id, config.thread_ts))
  ELSE IF all_keys = <<>> THEN Returned(<<>>)
  ELSE AReadTuple(db, config, Decode(PyMax(all_keys)))

\* everything aget_tuple(config) can hand back on db
AGetTupleOutcomes(db, config) ==
  {AGetTupleOn(db, config, all_keys) : all_keys \in Keys(db, PatternOf(config.thread_id))}

\* the async for loop of alist
RECURSIVE AListLoop(_, _, _)
AListLoop(db, thread_id, keys) ==
  IF keys = <<>> THEN <<>>
  ELSE LET key == Head(keys)
           data == HGetAll(db, key)
           thread_ts == LastSegment(Decode(key))
           has_parent == Str("parent_ts") \in DOMAIN data /\ Decode(data[Str("parent_ts")]) # <<>>
       IN (IF DOMAIN data # {} /\ Str("checkpoint") \in DOMAIN data
                               /\ Str("metadata") \in DOMAIN data
             THEN <<[config |-> [thread_id |-> thread_id, thread_ts |-> thread_ts],
                     checkpoint |-> Loads(Decode(data[Str("checkpoint")]), FALSE),
                     metadata |-> Loads(Decode(data[Str("metadata")]), FALSE),
                     parent_config |->
                       IF has_parent
                         THEN [thread_id |-> thread_id,
                               thread_ts |-> Decode(data[Str("parent_ts")])]
                         ELSE NoConfig]>>
             ELSE <<>>)
          \o AListLoop(db, thread_id, Tail(keys))

\* the keys alist reads, in reading order
AListKeys(before, limit, keys0) ==
  LET keys1 == IF before # NoConfig THEN SelectBefore(keys0, before.thread_ts) ELSE keys0
      keys2 == SortedDesc(keys1)
  IN IF limit # <<>> /\ limit[1] # 0 THEN Truncate(keys2, limit[1]) ELSE keys2

\* alist consumed to its end
AListOn(db, config, before, limit, keys0) ==
  IF ListRaises(before, keys0) THEN Raised("TypeError")
  ELSE Returned(AListLoop(db, ListThread(config), AListKeys(before, limit, keys0)))

\* everything alist(config, before=, limit=) can yield on db
AListOutcomes(db, config, before, limit) ==
  {AListOn(db, config, before, limit, keys0) : keys0 \in Keys(db, PatternOf(ListThread(config)))}

(***************************************************************************)
(* The connection provider and what a call does besides its result: the    *)
(* events of a call are the connections it leases and closes, the requests *)
(* it sends to the server and the entries it writes with logger.error.     *)
(***************************************************************************)
Lease(path) == [kind |-> "lease", what |-> path, exc |-> ""]
Close(conn) == [kind |-> "close", what |-> conn, exc |-> ""]
Request(command, exc) == [kind |-> "request", what |-> command, exc |-> exc]
ErrorLog(message) == [kind |-> "error", what |-> message, exc |-> ""]

\* what the saver can be constructed with, by class
Sources == {"Redis", "ConnectionPool", "AsyncRedis", "AsyncConnectionPool", "None"}

\* the error a request to the server ends with: at is the number of the request
\* of the call that fails (0: none does)
NoFault == [at |-> 0, exc |-> ""]
Faults == {NoFault} \cup [at : 1..2, exc : {"ConnectionError", "TimeoutError"}]

\* a provider that hands whatever it was given to the body
SyncEnterUnchecked(connection) ==
  IF connection = "ConnectionPool"
    THEN [raised |-> "", conn |-> "pooled", events |-> <<Lease("sync")>>]
  ELSE [raised |-> "", conn |-> "direct", events |-> <<>>]

\* _get_sync_connection up to its yield: the connection the body is given
\* ("direct": the caller's, "pooled": a client leased from the pool), or the
\* exception raised instead
SyncEnter(connection) ==
  IF connection = "Redis" THEN [raised |-> "", conn |-> "direct", events |-> <<>>]
  ELSE IF connection = "ConnectionPool"
    THEN [raised |-> "", conn |-> "pooled", events |-> <<Lease("sync")>>]
  ELSE [raised |-> "ValueError", conn |-> "", events |-> <<>>]

\* a provider whose close is skipped when the body raised
SyncExitNoFinally(conn, exc) ==
  (IF exc = "ConnectionError" THEN <<ErrorLog("Sync connection error")>> ELSE <<>>)
    \o (IF conn = "pooled" /\ exc = "" THEN <<Close("pooled")>> ELSE <<>>)

\* a provider that closes whatever connection it yielded
SyncExitClosesAll(conn, exc) ==
  (IF exc = "ConnectionError" THEN <<ErrorLog("Sync connection error")>> ELSE <<>>)
    \o (IF conn # "" THEN <<Close(conn)>> ELSE <<>>)

\* _get_sync_connection from its yield on, the body having raised exc ("":
\* nothing): the except clause, then the finally clause
SyncExit(conn, exc) ==
  (IF exc = "ConnectionError" THEN <<ErrorLog("Sync connection error")>> ELSE <<>>)
    \o (IF conn = "pooled" THEN <<Close("pooled")>> ELSE <<>>)

\* with _get_sync_connection(connection) as conn: body
WithSync(connection, db, body) ==
  LET enter == SyncEnter(connection)
  IN IF enter.raised # "" THEN [db |-> db, out |-> Raised(enter.raised), events |-> <<>>]
     ELSE [db |-> body.db, out |-> body.out,
           events |-> enter.events \o body.events \o SyncExit(enter.conn, body.out.raised)]

\* _get_async_connection up to its yield
AsyncEnter(connection) ==
  IF connection = "AsyncRedis" THEN [raised |-> "", conn |-> "direct", events |-> <<>>]
  ELSE IF connection = "AsyncConnectionPool"
    THEN [raised |-> "", conn |-> "pooled", events |-> <<Lease("async")>>]
  ELSE [raised |-> "ValueError", conn |-> "", events |-> <<>>]

\* an exit from the with statement that closes nothing when the body raised
AsyncExitNoFinally(conn, exc) ==
  (IF exc = "ConnectionError" THEN <<ErrorLog("Async connection error")>> ELSE <<>>)
    \o (IF conn = "pooled" /\ exc = "" THEN <<Close("pooled")>> ELSE <<>>)

\* _get_async_connection from its yield on
AsyncExit(conn, exc) ==
  (IF exc = "ConnectionError" THEN <<ErrorLog("Async connection error")>> ELSE <<>>)
    \o (IF conn = "pooled" THEN <<Close("pooled")>> ELSE <<>>)

\* async with _get_async_connection(connection) as conn: body
WithAsync(connection, db, body) ==
  LET enter == AsyncEnter(connection)
  IN IF enter.raised # "" THEN [db |-> db, out |-> Raised(enter.raised), events |-> <<>>]
     ELSE [db |-> body.db, out |-> body.out,
           events |-> enter.events \o body.events \o AsyncExit(enter.conn, body.out.raised)]

\* try: ... except Exception as e: logger.error(message); raise
Guarded(run, message) ==
  [run EXCEPT !.events = @ \o (IF run.out.raised # "" THEN <<ErrorLog(message)>> ELSE <<>>)]

\* a request that is sent again after it failed
SentTwice(commands, fault) ==
  IF fault.at \in 1..Len(commands)
    THEN [i \in 1..fault.at |-> Request(commands[i], IF i = fault.at THEN fault.exc ELSE "")]
           \o <<Request(commands[fault.at], fault.exc)>>
  ELSE [i \in 1..Len(commands) |-> Request(commands[i], "")]

\* the requests of a call up to the one that fails
Sent(commands, fault) ==
  [i \in 1..(IF fault.at \in 1..Len(commands) THEN fault.at ELSE Len(commands)) |->
     Request(commands[i], IF i = fault.at THEN fault.exc ELSE "")]

\* the body of the with statement of put: both dumps, then the hset
PutBody(db, config, checkpoint, metadata, fault) ==
  IF DumpsRaises(checkpoint) \/ DumpsRaises(metadata)
    THEN [db |-> db, out |-> Raised("TypeError"),
          events |-> <<ErrorLog("Serialization error")>>]
  ELSE IF fault.at = 1
    THEN [db |-> db, out |-> Raised(fault.exc), events |-> Sent(<<"HSET">>, fault)]
  ELSE [db |-> PutStore(db, config, checkpoint, metadata), out |-> Returned(<<>>),
        events |-> Sent(<<"HSET">>, fault)]

\* put from its first line to its return or raise
PutRun(connection, db, config, checkpoint, metadata, fault) ==
  LET run == Guarded(WithSync(connection, db, PutBody(db, config, checkpoint, metadata, fault)),
                     "Failed to put checkpoint")
  IN IF run.out.raised # "" THEN run
     ELSE [run EXCEPT !.out = Returned(<<PutReturn(config, checkpoint)>>)]

\* the body of the with statement of aput
APutBody(db, config, checkpoint, metadata, fault) ==
  IF DumpsRaises(checkpoint) \/ DumpsRaises(metadata)
    THEN [db |-> db, out |-> Raised("TypeError"),
          events |-> <<ErrorLog("Serialization error")>>]
  ELSE IF fault.at = 1
    THEN [db |-> db, out |-> Raised(fault.exc), events |-> Sent(<<"HSET">>, fault)]
  ELSE [db |-> APutStore(db, config, checkpoint, metadata), out |-> Returned(<<>>),
        events |-> Sent(<<"HSET">>, fault)]

\* aput from its first line to its return or raise
APutRun(connection, db, config, checkpoint, metadata, fault) ==
  LET run == Guarded(WithAsync(connection, db, APutBody(db, config, checkpoint, metadata, fault)),
                     "Failed to aput checkpoint")
  IN IF run.out.raised # "" THEN run
     ELSE [run EXCEPT !.out = Returned(<<APutReturn(config, checkpoint)>>)]

\* the requests get_tuple sends when none fails
GetTupleCommands(config, all_keys) ==
  IF Truthy(config.thread_ts) THEN <<"HGETALL">>
  ELSE IF all_keys = <<>> THEN <<"KEYS">>
  ELSE <<"KEYS", "HGETALL">>

\* the body of the with statement of get_tuple
GetTupleBody(db, config, all_keys, fault) ==
  LET commands == GetTupleCommands(config, all_keys)
      out == GetTupleOn(db, config, all_keys)
  IN IF fault.at \in 1..Len(commands)
       THEN [db |-> db, out |-> Raised(fault.exc), events |-> Sent(commands, fault)]
     ELSE [db |-> db, out |-> out,
           events |-> Sent(commands, fault)
                        \o (IF out.raised = "JSONDecodeError"
                              THEN <<ErrorLog("Deserialization error")>> ELSE <<>>)]

\* get_tuple from its first line to its return or raise
GetTupleRun(connection, db, config, all_keys, fault) ==
  Guarded(WithSync(connection, db, GetTupleBody(db, config, all_keys, fault)),
          "Failed to get checkpoint tuple")

\* the body of the with statement of aget_tuple
AGetTupleBody(db, config, all_keys, fault) ==
  LET commands == GetTupleCommands(config, all_keys)
      out == AGetTupleOn(db, config, all_keys)
  IN IF fault.at \in 1..Len(commands)
       THEN [db |-> db, out |-> Raised(fault.exc), events |-> Sent(commands, fault)]
     ELSE [db |-> db, out |-> out,
           events |-> Sent(commands, fault)
                        \o (IF out.raised = "JSONDecodeError"
                              THEN <<ErrorLog("Deserialization error")>> ELSE <<>>)]

\* aget_tuple from its first line to its return or raise
AGetTupleRun(connection, db, config, all_keys, fault) ==
  Guarded(WithAsync(connection, db, AGetTupleBody(db, config, all_keys, fault)),
          "Failed to get checkpoint tuple")

\* the requests list sends when none fails: KEYS, then one HGETALL per key read
ListCommands(before, limit, keys0) ==
  IF ListRaises(before, keys0) THEN <<"KEYS">>
  ELSE <<"KEYS">> \o [i \in 1..Len(ListKeys(before, limit, keys0)) |-> "HGETALL"]

\* the body of the with statement of list, the generator consumed to its end
ListBody(db, config, before, limit, keys0, fault) ==
  LET commands == ListCommands(before, limit, keys0)
  IN IF fault.at \in 1..Len(commands)
       THEN [db |-> db, out |-> Raised(fault.exc), events |-> Sent(commands, fault)]
     ELSE [db |-> db, out |-> ListOn(db, config, before, limit, keys0),
           events |-> Sent(commands, fault)]

\* list from its first pull to its end or raise
ListRun(connection, db, config, before, limit, keys0, fault) ==
  Guarded(WithSync(connection, db, ListBody(db, config, before, limit, keys0, fault)),
          "Failed to list checkpoints")

\* the body of the with statement of alist
AListBody(db, config, before, limit, keys0, fault) ==
  LET commands == ListCommands(before, limit, keys0)
  IN IF fault.at \in 1..Len(commands)
       THEN [db |-> db, out |-> Raised(fault.exc), events |-> Sent(commands, fault)]
     ELSE [db |-> db, out |-> AListOn(db, config, before, limit, keys0),
           events |-> Sent(commands, fault)]

\* alist from its first pull to its end or raise
AListRun(connection, db, config, before, limit, keys0, fault) ==
  Guarded(WithAsync(connection, db, AListBody(db, config, before, limit, keys0, fault)),
          "Failed to list checkpoints")

\* the connections after the events of a call: the number of clients leased
\* from a pool and not closed, and whether the caller's connection was closed
RECURSIVE After(_, _)
After(c, events) ==
  IF events = <<>> THEN c
  ELSE LET e == Head(events)
           c1 == CASE e.kind = "lease" -> [c EXCEPT !.leased = @ + 1]
                   [] e.kind = "close" /\ e.what = "pooled" -> [c EXCEPT !.leased = @ - 1]
                   [] e.kind = "close" /\ e.what = "direct" -> [c EXCEPT !.direct_closed = TRUE]
                   [] OTHER -> c
       IN After(c1, Tail(events))

(***************************************************************************)
(* The callers: the values the operations are called with.                 *)
(***************************************************************************)
\* thread ids: caller-chosen strings
ThreadIds == {<<"a">>, <<"a", ":", "b">>, <<"*">>}

\* version markers (checkpoint["ts"]): opaque strings, one with ':' in it as
\* ISO-8601 timestamps have
Markers == {<<"a">>, <<"b">>, <<"b", ":", "a">>}

\* the version of an identity: absent (None), empty, or a marker
Versions == {None, <<>>, <<"a">>, <<"b", ":", "a">>}

Configs == [thread_id : ThreadIds, thread_ts : Versions]

\* the checkpoint and the metadata the caller builds at its n-th step
CheckpointOf(ts, n) == [ts |-> ts, channel_values |-> n]
MetadataOf(n) == [source |-> IF n = 1 THEN "input" ELSE "loop", step |-> n]

\* before= of list: None or an identity with a version
Befores == {NoConfig, [thread_id |-> <<"a">>, thread_ts |-> <<"b">>]}

\* limit= of list: None (<<>>) or an int
Limits == {<<>>, <<1>>}

\* config of list: None or an identity (its version is not read)
ListConfigs == {NoConfig} \cup [thread_id : {<<"a">>, <<"a", ":", "b">>}, thread_ts : {None}]

(***************************************************************************)
(* The state machine.  store is the Redis database, puts the put calls     *)
(* that returned so far (in call order), ret the last call with what it    *)
(* gave back, trace the events of that call.  saver holds what the saver   *)
(* was constructed with, conns the connections (see After), procs the      *)
(* calls in flight when calls run concurrently.                            *)
(***************************************************************************)
Call(op, config, before, limit, out) ==
  [op |-> op, config |-> config, before |-> before, limit |-> limit,
   raised |-> out.raised, value |-> out.value]

\* number of callers that can be inside a call at the same time
MaxProcs == 2

Procs == 1..MaxProcs

\* a caller that is inside no call
Idle == [pc |-> "idle"]

\* RedisSaver(sync_connection=sync_connection, async_connection=async_connection)
InitWith(sync_connection, async_connection) ==
  /\ store = <<>>
  /\ puts = <<>>
  /\ ret = Call("init", NoConfig, NoConfig, <<>>, Returned(<<>>))
  /\ saver = [sync_connection |-> sync_connection, async_connection |-> async_connection]
  /\ conns = [leased |-> 0, direct_closed |-> FALSE]
  /\ trace = <<>>
  /\ procs = [p \in Procs |-> Idle]

\* a saver over the caller's own connections
Init == InitWith("Redis", "AsyncRedis")

\* a call that ran from its first line to its return or raise with no other
\* call in between
Completes(op, config, before, limit, run) ==
  /\ store' = run.db
  /\ ret' = Call(op, config, before, limit, run.out)
  /\ trace' = run.events
  /\ conns' = After(conns, run.events)
  /\ UNCHANGED <<saver, procs>>

\* put / aput called while the server answers as fault says
PutVia(op, config, checkpoint, metadata, fault) ==
  LET run == IF op = "put"
               THEN PutRun(saver.sync_connection, store, config, checkpoint, metadata, fault)
               ELSE APutRun(saver.async_connection, store, config, checkpoint, metadata, fault)
  IN /\ Completes(op, config, NoConfig, <<>>, run)
     /\ puts' = IF run.out.raised = ""
                  THEN Append(puts, [config |-> config, checkpoint |-> checkpoint,
                                     metadata |-> metadata, returned |-> run.out.value[1]])
                  ELSE puts

\* get_tuple / aget_tuple called while the server answers as fault says
GetTupleVia(op, config, fault) ==
  /\ \E run \in {IF op = "get_tuple"
                   THEN GetTupleRun(saver.sync_connection, store, config, all_keys, fault)
                   ELSE AGetTupleRun(saver.async_connection, store, config, all_keys, fault) :
                 all_keys \in Keys(store, PatternOf(config.thread_id))} :
       Completes(op, config, NoConfig, <<>>, run)
  /\ UNCHANGED puts

\* list / alist consumed to its end while the server answers as fault says
ListVia(op, config, before, limit, fault) ==
  /\ \E run \in {IF op = "list"
                   THEN ListRun(saver.sync_connection, store, config, before, limit, keys0, fault)
                   ELSE AListRun(saver.async_connection, store, config, before, limit, keys0, fault) :
                 keys0 \in Keys(store, PatternOf(ListThread(config)))} :
       Completes(op, config, before, limit, run)
  /\ UNCHANGED puts

\* put(config, checkpoint, metadata)
Put(config, checkpoint, metadata) == PutVia("put", config, checkpoint, metadata, NoFault)

\* get_tuple(config)
GetTuple(config) == GetTupleVia("get_tuple", config, NoFault)

\* [t for t in list(config, before=before, limit=limit)]
List(config, before, limit) == ListVia("list", config, before, limit, NoFault)

\* a read leaves the database as it is, so what it hands back after another read
\* is what it hands back right after the last put: reads are explored from the
\* states a put (or the start) leaves, which loses no state
AfterWrite == ret.op \in {"init", "put"}

PutAny ==
  /\ Len(puts) < MaxPuts
  /\ \E config \in Configs, ts \in Markers :
       Put(config, CheckpointOf(ts, Len(puts) + 1), MetadataOf(Len(puts) + 1))

GetTupleAny == AfterWrite /\ \E config \in Configs : GetTuple(config)

ListAny ==
  /\ AfterWrite
  /\ \E config \in ListConfigs, before \in Befores, limit \in Limits :
       List(config, before, limit)

Next == PutAny \/ GetTupleAny \/ ListAny

Spec == Init /\ [][Next]_vars

(***************************************************************************)
(* One caller running one thread in causal order: every put is given the   *)
(* identity the previous put returned (a version-less one at first), with  *)
(* strictly increasing markers of the timestamp shape hh:mm.               *)
(***************************************************************************)
ChainThread == <<"a">>

Digits == <<"a", "b", "c">>

\* the i-th marker, increasing with i as strings
ChainMarker(i) ==
  <<Digits[((i - 1) \div Len(Digits)) + 1], ":", Digits[((i - 1) % Len(Digits)) + 1]>>

ChainMarkers == {ChainMarker(i) : i \in 1..(MaxChain + 1)}

\* the identity the caller holds: the one its last put returned
ChainConfig ==
  IF puts = <<>> THEN [thread_id |-> ChainThread, thread_ts |-> None]
  ELSE puts[Len(puts)].returned

ChainPut ==
  /\ Len(puts) < MaxChain
  /\ \E ts \in ChainMarkers :
       /\ puts # <<>> => StrLess(puts[Len(puts)].checkpoint.ts, ts)
       /\ Put(ChainConfig, CheckpointOf(ts, Len(puts) + 1), MetadataOf(Len(puts) + 1))

\* the identities the caller reads with: the thread's, or one a put returned
ChainReadConfigs ==
  {[thread_id |-> ChainThread, thread_ts |-> None]} \cup {puts[i].returned : i \in 1..Len(puts)}

ChainGetTuple == AfterWrite /\ \E config \in ChainReadConfigs : GetTuple(config)

ChainLimits == {<<>>, <<0>>, <<3>>}

ChainList ==
  /\ AfterWrite
  /\ \E config \in {NoConfig, [thread_id |-> ChainThread, thread_ts |-> None]},
        before \in {NoConfig} \cup {puts[i].returned : i \in 1..Len(puts)},
        limit \in ChainLimits :
       List(config, before, limit)

ChainNext == ChainPut \/ ChainGetTuple \/ ChainList

SpecChain == Init /\ [][ChainNext]_vars

(***************************************************************************)
(* Another client of the same database whose record lacks a field (the     *)
(* not-yet-fully-written record the test in list allows for), beside the   *)
(* caller of SpecChain.                                                    *)
(***************************************************************************)
\* number of incomplete records written in a behaviour of SpecForeign
MaxForeign == 1

\* the incomplete hashes in the database
Incomplete(db) ==
  {k \in DOMAIN db : ~({Bytes("checkpoint"), Bytes("metadata")} \subseteq DOMAIN db[k])}

ForeignPartial ==
  /\ Cardinality(Incomplete(store)) < MaxForeign
  /\ \E ts \in ChainMarkers, name \in {"checkpoint", "metadata"} :
       /\ Encode(KeyOf(ChainThread, ts)) \notin DOMAIN store
       /\ store' = HSet(store, KeyOf(ChainThread, ts),
                        (Str(name) :> <<"json", name>>) @@ (Str("parent_ts") :> <<>>))
  /\ ret' = Call("foreign", NoConfig, NoConfig, <<>>, Returned(<<>>))
  /\ trace' = <<>>
  /\ UNCHANGED <<puts, saver, conns, procs>>

ForeignNext == ChainNext \/ ForeignPartial

SpecForeign == Init /\ [][ForeignNext]_vars

(***************************************************************************)
(* Calls through both surfaces of a saver constructed with any pair of     *)
(* connection sources, against a server whose requests can fail, with      *)
(* values the serializer cannot write and stored texts it cannot read.     *)
(***************************************************************************)
IOThread == <<"a">>

IOMarkers == {<<"a">>, <<"b">>}

IOConfigs == [thread_id : {IOThread}, thread_ts : {None, <<"a">>}]

\* the metadata of the n-th put, or an object json cannot serialize
IOMetadata(n) == {MetadataOf(n), [object |-> "lock"]}

\* the savers that are constructed: with one source as in the notebook (a
\* pool or a connection, for one path), with a source for each path, with
\* none, and with each source handed to the wrong path
Savers ==
  {<<"Redis", "None">>, <<"ConnectionPool", "None">>,
   <<"None", "AsyncRedis">>, <<"None", "AsyncConnectionPool">>,
   <<"Redis", "AsyncRedis">>, <<"ConnectionPool", "AsyncConnectionPool">>,
   <<"None", "None">>, <<"AsyncRedis", "ConnectionPool">>}

InitIO == \E s \in Savers : InitWith(s[1], s[2])

\* the calls after which the reads are explored (see AfterWrite)
IOAfterWrite == ret.op \in {"init", "put", "aput", "foreign"}

IOPut ==
  /\ Len(puts) < MaxPuts
  /\ \E op \in {"put", "aput"}, config \in IOConfigs, ts \in IOMarkers,
        metadata \in IOMetadata(Len(puts) + 1), fault \in Faults :
       PutVia(op, config, CheckpointOf(ts, Len(puts) + 1), metadata, fault)

IOGetTuple ==
  /\ IOAfterWrite
  /\ \E op \in {"get_tuple", "aget_tuple"}, config \in IOConfigs, fault \in Faults :
       GetTupleVia(op, config, fault)

IOList ==
  /\ IOAfterWrite
  /\ \E op \in {"list", "alist"}, limit \in Limits, fault \in Faults :
       ListVia(op, [thread_id |-> IOThread, thread_ts |-> None], NoConfig, limit, fault)

\* the records whose checkpoint text is not one the serializer reads
Corrupt(db) ==
  {k \in DOMAIN db :
     /\ Bytes("checkpoint") \in DOMAIN db[k]
     /\ LoadsRaises(Decode(db[k][Bytes("checkpoint")]), FALSE)}

\* another client stores a record whose checkpoint is not JSON
IOCorrupt ==
  /\ Cardinality(Corrupt(store)) < MaxForeign
  /\ \E ts \in IOMarkers :
       store' = HSet(store, KeyOf(IOThread, ts),
                     (Str("checkpoint") :> <<"{">>) @@ (Str("metadata") :> <<"{">>)
                       @@ (Str("parent_ts") :> <<>>))
  /\ ret' = Call("foreign", NoConfig, NoConfig, <<>>, Returned(<<>>))
  /\ trace' = <<>>
  /\ UNCHANGED <<puts, saver, conns, procs>>

IONext == IOPut \/ IOGetTuple \/ IOList \/ IOCorrupt

SpecIO == InitIO /\ [][IONext]_vars

(***************************************************************************)
(* The serializer on its own: a value is handed to dumps and the text to   *)
(* loads, with is_binary set or not.  ret holds the value (obj), the text  *)
(* dumps returned and what loads returned.                                 *)
(***************************************************************************)
\* length of the byte sequences and of the lists handed to the serializer
MaxBytes == 2

\* bytes whose two hex digits are decimal ("00", "10") and not ("ab", "ff")
ByteValues == {0, 16, 171, 255}

ByteSeqs == UNION {[1..n -> ByteValues] : n \in 0..MaxBytes}

\* values that hold no other value
Leaves ==
  {[int |-> 7], [str |-> <<"a", "b">>], CheckpointOf(<<"a">>, 1), [object |-> "lock"],
   [bytes |-> <<171>>], [bytearray |-> <<0, 16>>]}

\* lists of leaves, and a list in a list
Lists ==
  LET flat == {[list |-> l] : l \in UNION {[1..n -> Leaves] : n \in 0..MaxBytes}}
  IN flat \cup {[list |-> <<[list |-> <<[bytes |-> <<255, 0>>]>>], [int |-> 7]>>]}

CodecValues ==
  {[bytes |-> b] : b \in ByteSeqs} \cup {[bytearray |-> b] : b \in ByteSeqs}
    \cup Leaves \cup Lists

InitCodec ==
  /\ \E obj \in CodecValues :
       ret = [op |-> "serde", obj |-> obj, text |-> <<>>, is_binary |-> FALSE,
              raised |-> "", value |-> <<>>]
  /\ store = <<>>
  /\ puts = <<>>
  /\ saver = [sync_connection |-> "None", async_connection |-> "None"]
  /\ conns = [leased |-> 0, direct_closed |-> FALSE]
  /\ trace = <<>>
  /\ procs = [p \in Procs |-> Idle]

\* serde.dumps(obj)
CodecDumps ==
  /\ ret.op = "serde"
  /\ IF DumpsRaises(ret.obj)
       THEN /\ ret' = [ret EXCEPT !.op = "dumps", !.raised = "TypeError"]
            /\ trace' = <<ErrorLog("Serialization error")>>
       ELSE /\ ret' = [ret EXCEPT !.op = "dumps", !.text = Dumps(ret.obj)]
            /\ trace' = <<>>
  /\ UNCHANGED <<store, puts, saver, conns, procs>>

\* serde.loads(text, is_binary) of the text dumps returned
CodecLoads ==
  /\ ret.op = "dumps"
  /\ ret.raised = ""
  /\ \E is_binary \in BOOLEAN :
       IF LoadsRaises(ret.text, is_binary)
         THEN /\ ret' = [ret EXCEPT !.op = "loads", !.is_binary = is_binary,
                                    !.raised = IF is_binary THEN "ValueError"
                                               ELSE "JSONDecodeError"]
              /\ trace' = <<ErrorLog("Deserialization error")>>
         ELSE /\ ret' = [ret EXCEPT !.op = "loads", !.is_binary = is_binary,
                                    !.value = <<Loads(ret.text, is_binary)>>]
              /\ trace' = <<>>
  /\ UNCHANGED <<store, puts, saver, conns, procs>>

CodecNext == CodecDumps \/ CodecLoads

SpecCodec == InitCodec /\ [][CodecNext]_vars

(***************************************************************************)
(* Calls that run at the same time, on the non-blocking surface (the       *)
(* blocking one does the same, request by request).  A call is in flight   *)
(* from its first line to its return; it is suspended at each request to   *)
(* the server, and between its requests the requests of other calls are    *)
(* served.  Every request is one command, which the server serves at once. *)
(* procs[p] is the call caller p is inside: pc the request it waits for,   *)
(* keys the keys it has still to read, value what it has to hand back so   *)
(* far, events what it did, began the number of puts the server had served *)
(* when a read was called.  The lines after the last request of a call     *)
(* (leaving the with statement, the return) touch nothing another call     *)
(* sees and are taken with that request.                                   *)
(***************************************************************************)
InFlight(op, config, checkpoint, metadata, pc, keys) ==
  [pc |-> pc, op |-> op, config |-> config, checkpoint |-> checkpoint, metadata |-> metadata,
   keys |-> keys, value |-> <<>>, events |-> AsyncEnter(saver.async_connection).events,
   began |-> IF op = "aput" THEN 0 ELSE Len(puts)]

\* the aput calls in flight
Writers == {p \in Procs : procs[p].pc = "hset"}

\* the saver of the concurrent callers: a pool for the non-blocking path
InitConc == InitWith("None", "AsyncConnectionPool")

\* callers are alike: a call is taken by the idle caller of least number
Free(p) == procs[p].pc = "idle" /\ \A q \in 1..(p - 1) : procs[q].pc # "idle"

\* the identities the concurrent callers put with and read with
ConcConfigs == [thread_id : {IOThread}, thread_ts : {None, <<"a", ":", "b">>}]

\* what the concurrent callers put: a first checkpoint of the thread, and a
\* successor of it that carries the first one's identity; the markers have
\* the shape hh:mm
ConcPuts ==
  {[config |-> [thread_id |-> IOThread, thread_ts |-> None], ts |-> <<"a", ":", "b">>],
   [config |-> [thread_id |-> IOThread, thread_ts |-> <<"a", ":", "b">>], ts |-> <<"b", ":", "a">>]}

\* p enters the with statement of a call: the lines up to its first await
Begin(p, call) ==
  /\ procs' = [procs EXCEPT ![p] = call]
  /\ conns' = After(conns, call.events)
  /\ UNCHANGED <<store, puts, ret, saver, trace>>

\* caller p calls aput
BeginPut(p) ==
  /\ Free(p)
  /\ Len(puts) + Cardinality(Writers) < MaxPuts
  /\ \E w \in ConcPuts :
       LET n == Len(puts) + Cardinality(Writers) + 1
       IN Begin(p, InFlight("aput", w.config, CheckpointOf(w.ts, n), MetadataOf(n), "hset", <<>>))

\* caller p calls aget_tuple
BeginGetTuple(p) ==
  /\ Free(p)
  /\ \E config \in ConcConfigs :
       Begin(p, IF Truthy(config.thread_ts)
                  THEN InFlight("aget_tuple", config, NoConfig, NoConfig, "hgetall",
                                <<Encode(KeyOf(config.thread_id, config.thread_ts))>>)
                  ELSE InFlight("aget_tuple", config, NoConfig, NoConfig, "keys", <<>>))

\* caller p pulls the first element of alist(config)
BeginList(p) ==
  /\ Free(p)
  /\ \E config \in {c \in ConcConfigs : c.thread_ts = None} :
       Begin(p, InFlight("alist", config, NoConfig, NoConfig, "keys", <<>>))

\* the exceptions `except Exception` catches: a cancellation is none of them
Caught(exc) == exc \notin {"", "CancelledError"}

\* p, whose last request ended as sent says, leaves the with statement and
\* hands out back to its caller
Return(p, sent, out) ==
  LET c == procs[p]
      exit == AsyncExit(AsyncEnter(saver.async_connection).conn, out.raised)
                \o (IF Caught(out.raised)
                      THEN <<ErrorLog(IF c.op = "aput" THEN "Failed to aput checkpoint"
                                      ELSE IF c.op = "aget_tuple"
                                        THEN "Failed to get checkpoint tuple"
                                      ELSE "Failed to list checkpoints")>>
                      ELSE <<>>)
  IN /\ ret' = Call(c.op, c.config, NoConfig, <<>>, out)
     /\ trace' = c.events \o <<sent>> \o exit
     /\ conns' = After(conns, exit)
     /\ procs' = [procs EXCEPT ![p] = Idle]
     /\ UNCHANGED saver

\* the server serves the HSET of p, and p returns
ServeHSet(p) ==
  /\ procs[p].pc = "hset"
  /\ LET c == procs[p]
     IN /\ store' = APutStore(store, c.config, c.checkpoint, c.metadata)
        /\ puts' = Append(puts, [config |-> c.config, checkpoint |-> c.checkpoint,
                                 metadata |-> c.metadata,
                                 returned |-> APutReturn(c.config, c.checkpoint)])
        /\ Return(p, Request("HSET", ""), Returned(<<APutReturn(c.config, c.checkpoint)>>))

\* the caller of p cancels it while it waits for its HSET: the request was
\* not sent yet (p was still getting the connection of the pool), or it was
\* sent and the server serves it although nobody waits for the reply
Cancel(p) ==
  /\ procs[p].pc = "hset"
  /\ LET c == procs[p]
     IN \E served \in BOOLEAN :
          /\ store' = IF served THEN APutStore(store, c.config, c.checkpoint, c.metadata)
                      ELSE store
          /\ puts' = IF served
                       THEN Append(puts, [config |-> c.config, checkpoint |-> c.checkpoint,
                                          metadata |-> c.metadata, returned |-> NoConfig])
                       ELSE puts
          /\ Return(p, Request("HSET", "CancelledError"), Raised("CancelledError"))

\* the consumer of a reader p is cancelled while p waits for a reply: the
\* CancelledError is thrown into p at its await and leaves through the with
CancelRead(p) ==
  /\ procs[p].pc \in {"keys", "hgetall"}
  /\ Return(p, Request(IF procs[p].pc = "keys" THEN "KEYS" ELSE "HGETALL", "CancelledError"),
            Raised("CancelledError"))
  /\ UNCHANGED <<store, puts>>

\* the request a reader p waits for fails: the connection to the server is lost
Fail(p) ==
  /\ procs[p].pc \in {"keys", "hgetall"}
  /\ Return(p, Request(IF procs[p].pc = "keys" THEN "KEYS" ELSE "HGETALL", "ConnectionError"),
            Raised("ConnectionError"))
  /\ UNCHANGED <<store, puts>>

\* the server serves the KEYS of p; p goes on to the first key it reads, or
\* returns when there is none
ServeKeys(p) ==
  /\ procs[p].pc = "keys"
  /\ LET c == procs[p]
     IN \E keys0 \in Keys(store, PatternOf(c.config.thread_id)) :
          LET keys == IF c.op = "aget_tuple"
                        THEN (IF keys0 = <<>> THEN <<>> ELSE <<PyMax(keys0)>>)
                        ELSE AListKeys(NoConfig, <<>>, keys0)
          IN IF keys = <<>>
               THEN Return(p, Request("KEYS", ""), Returned(<<>>))
               ELSE /\ procs' = [procs EXCEPT ![p].pc = "hgetall", ![p].keys = keys,
                                              ![p].events = @ \o <<Request("KEYS", "")>>]
                    /\ UNCHANGED <<ret, saver, conns, trace>>
  /\ UNCHANGED <<store, puts>>

\* a read that enumerates the keys of the thread again after each HGETALL,
\* and goes on with those other than the key it has just read
ServeHGetAllFresh(p) ==
  /\ procs[p].pc = "hgetall"
  /\ LET c == procs[p]
         key == Head(c.keys)
         out == IF c.op = "aget_tuple" THEN AReadTuple(store, c.config, Decode(key))
                ELSE Returned(AListLoop(store, c.config.thread_id, <<key>>))
     IN \E keys0 \in Keys(store, PatternOf(c.config.thread_id)) :
          LET rest == IF c.op = "aget_tuple" THEN <<>>
                      ELSE SelectSeq(AListKeys(NoConfig, <<>>, keys0), LAMBDA k : k # key)
          IN IF rest = <<>> \/ out.raised # ""
               THEN Return(p, Request("HGETALL", ""), [out EXCEPT !.value = c.value \o @])
               ELSE /\ procs' = [procs EXCEPT ![p].keys = rest,
                                              ![p].value = @ \o out.value,
                                              ![p].events = @ \o <<Request("HGETALL", "")>>]
                    /\ UNCHANGED <<ret, saver, conns, trace>>
  /\ UNCHANGED <<store, puts>>

\* the server serves the HGETALL of the next key of p; p goes on to the key
\* after it, or returns
ServeHGetAll(p) ==
  /\ procs[p].pc = "hgetall"
  /\ LET c == procs[p]
         key == Head(c.keys)
         out == IF c.op = "aget_tuple" THEN AReadTuple(store, c.config, Decode(key))
                ELSE Returned(AListLoop(store, c.config.thread_id, <<key>>))
     IN IF Tail(c.keys) = <<>> \/ out.raised # ""
          THEN Return(p, Request("HGETALL", ""), [out EXCEPT !.value = c.value \o @])
          ELSE /\ procs' = [procs EXCEPT ![p].keys = Tail(c.keys), ![p].value = @ \o out.value,
                                         ![p].events = @ \o <<Request("HGETALL", "")>>]
               /\ UNCHANGED <<ret, saver, conns, trace>>
  /\ UNCHANGED <<store, puts>>

ConcNext ==
  \E p \in Procs :
    \/ BeginPut(p)
    \/ BeginGetTuple(p)
    \/ BeginList(p)
    \/ ServeHSet(p)
    \/ ServeKeys(p)
    \/ ServeHGetAll(p)
    \/ Cancel(p)
    \/ CancelRead(p)
    \/ Fail(p)

SpecConc == InitConc /\ [][ConcNext]_vars

\* the server answers: a request a caller waits for is served in the end,
\* unless the caller is cancelled or the connection is lost before
Answer(p) == ServeHSet(p) \/ ServeKeys(p) \/ ServeHGetAll(p)

\* the callers that put and list, and whose reads can fail or be cancelled
LeaseNext ==
  \E p \in Procs :
    \/ BeginPut(p)
    \/ BeginList(p)
    \/ ServeHSet(p)
    \/ ServeKeys(p)
    \/ ServeHGetAll(p)
    \/ CancelRead(p)
    \/ Fail(p)

SpecLease == InitConc /\ [][LeaseNext]_vars /\ \A p \in Procs : WF_vars(Answer(p))

(***************************************************************************)
(* What the claims speak of.                                               *)
(***************************************************************************)
\* the put calls made with thread id t
ThreadPuts(t) == {i \in 1..Len(puts) : puts[i].config.thread_id = t}

LastPut == puts[Len(puts)]

\* the key string of a record, as the specification gives it
RecordKey(thread_id, version) ==
  Bytes(<<"checkpoint", ":">> \o thread_id \o <<":">> \o version)

\* the put calls whose record no later put has written over
LivePuts ==
  {i \in 1..Len(puts) :
     \A j \in (i + 1)..Len(puts) :
       RecordKey(puts[j].config.thread_id, puts[j].checkpoint.ts)
         # RecordKey(puts[i].config.thread_id, puts[i].checkpoint.ts)}

\* the parent a read of the record of put call i is to give
ParentOfPut(i) ==
  IF puts[i].config.thread_ts \in {None, <<>>} THEN NoConfig
  ELSE [thread_id |-> puts[i].config.thread_id, thread_ts |-> puts[i].config.thread_ts]

\* the versions of the tuples a read handed back
YieldedVersions == {ret.value[i].config.thread_ts : i \in 1..Len(ret.value)}

\* the tuples are in strictly descending order of version
Descending ==
  \A i \in 1..(Len(ret.value) - 1) :
    StrLess(ret.value[i + 1].config.thread_ts, ret.value[i].config.thread_ts)

\* a tuple that was handed back identifies the record of put call i and carries
\* what that call stored
YieldedAs(i) ==
  \E n \in 1..Len(ret.value) :
    /\ ret.value[n].config = [thread_id |-> puts[i].config.thread_id,
                              thread_ts |-> puts[i].checkpoint.ts]
    /\ ret.value[n].checkpoint = puts[i].checkpoint
    /\ ret.value[n].metadata = puts[i].metadata
    /\ ret.value[n].parent_config = ParentOfPut(i)

(***************************************************************************)
(* C1: get_tuple with a thread id and no version returns the record whose  *)
(* version marker is the greatest of the thread's markers, compared as     *)
(* whole strings, when the thread's records have pairwise distinct markers.*)
(***************************************************************************)
C1_LatestIsLexMax ==
  \A t \in ThreadIds :
    ( /\ ret.op = "get_tuple"
      /\ ret.config = [thread_id |-> t, thread_ts |-> None]
      /\ ThreadPuts(t) # {}
      /\ \A i, j \in ThreadPuts(t) : i # j => puts[i].checkpoint.ts # puts[j].checkpoint.ts )
    => LET top == CHOOSE i \in ThreadPuts(t) :
                    \A j \in ThreadPuts(t) : ~StrLess(puts[i].checkpoint.ts, puts[j].checkpoint.ts)
       IN /\ ret.raised = ""
          /\ Len(ret.value) = 1
          /\ ret.value[1].checkpoint = puts[top].checkpoint
          /\ ret.value[1].metadata = puts[top].metadata

(***************************************************************************)
(* C2: after a put with a version-less identity to a thread that had no    *)
(* records, get_tuple with the thread id alone returns the checkpoint and  *)
(* the metadata that were put, with no parent.                             *)
(***************************************************************************)
C2_FirstPutThenGet ==
  ( /\ puts # <<>>
    /\ LastPut.config.thread_ts = None
    /\ ThreadPuts(LastPut.config.thread_id) = {Len(puts)}
    /\ ret.op = "get_tuple"
    /\ ret.config = [thread_id |-> LastPut.config.thread_id, thread_ts |-> None] )
  => /\ ret.raised = ""
     /\ Len(ret.value) = 1
     /\ ret.value[1].checkpoint = LastPut.checkpoint
     /\ ret.value[1].metadata = LastPut.metadata
     /\ ret.value[1].parent_config = NoConfig

(***************************************************************************)
(* C3: monotonic chain.  When a put is given the identity id1 the put      *)
(* before it returned and returns id2, get_tuple(id2) returns a tuple      *)
(* whose parent has id2's thread id and id1's version.                     *)
(***************************************************************************)
C3_Chained ==
  /\ Len(puts) >= 2
  /\ LastPut.config = puts[Len(puts) - 1].returned
  /\ ret.op = "get_tuple"
  /\ ret.config = LastPut.returned

C3_MonotonicChain ==
  C3_Chained
  => /\ ret.raised = ""
     /\ Len(ret.value) = 1
     /\ ret.value[1].parent_config =
          [thread_id |-> LastPut.returned.thread_id,
           thread_ts |-> puts[Len(puts) - 1].returned.thread_ts]

\* a chained put with a marker of its own, read back
C3_Witness ==
  /\ C3_Chained
  /\ Len(ret.value) = 1
  /\ LastPut.returned.thread_ts # puts[Len(puts) - 1].returned.thread_ts

(***************************************************************************)
(* C4: put writes exactly one record, under checkpoint:{thread_id}:{ts} of *)
(* the checkpoint, with parent_ts the incoming identity's version (empty   *)
(* when it has none), and returns the identity (thread_id, ts).            *)
(***************************************************************************)
C4_PutWritesOneRecord ==
  [][Len(puts') > Len(puts) =>
       LET p == puts'[Len(puts')]
           key == RecordKey(p.config.thread_id, p.checkpoint.ts)
       IN /\ DOMAIN store' = (DOMAIN store) \cup {key}
          /\ \A k \in (DOMAIN store) \ {key} : store'[k] = store[k]
          /\ store'[key][Bytes("parent_ts")] =
               Bytes(IF p.config.thread_ts \in {None, <<>>} THEN <<>> ELSE p.config.thread_ts)
          /\ ret'.op = "put"
          /\ ret'.raised = ""
          /\ ret'.value = <<[thread_id |-> p.config.thread_id, thread_ts |-> p.checkpoint.ts]>>
    ]_vars

\* a put made with a versioned identity has added a second record
C4_Witness ==
  /\ ret.op = "put"
  /\ ret.config.thread_ts \notin {None, <<>>}
  /\ ret.config.thread_ts # ret.value[1].thread_ts
  /\ Cardinality(DOMAIN store) = 2

C6_NothingDeleted ==
  [][/\ DOMAIN store \subseteq DOMAIN store'
     /\ ret'.op \in {"get_tuple", "list"} => store' = store
    ]_vars

\* a list and a get_tuple have run on a store that holds records
C6_Witness ==
  /\ ret.op \in {"get_tuple", "list"}
  /\ Cardinality(DOMAIN store) = 2

\* the put calls to thread t whose records are in the store as put
LiveThreadPuts(t) == ThreadPuts(t) \cap LivePuts

(***************************************************************************)
(* C7: with at least 5 fully written checkpoints in one thread,            *)
(* list(thread, limit=3) yields exactly 3 tuples, in strictly descending   *)
(* version order, and they are the 3 records with the greatest markers.    *)
(***************************************************************************)
C7_ListLimitThree ==
  \A t \in ThreadIds :
    ( /\ ret.op = "list"
      /\ ret.config = [thread_id |-> t, thread_ts |-> None]
      /\ ret.before = NoConfig
      /\ ret.limit = <<3>>
      /\ Incomplete(store) = {}
      /\ Cardinality(LiveThreadPuts(t)) >= 5 )
    => /\ ret.raised = ""
       /\ Len(ret.value) = 3
       /\ Descending
       /\ \A i \in LiveThreadPuts(t) :
            YieldedAs(i)
              <=> Cardinality({j \in LiveThreadPuts(t) :
                                 StrLess(puts[i].checkpoint.ts, puts[j].checkpoint.ts)}) < 3

(***************************************************************************)
(* C8: list(thread) with no before and no limit yields one tuple for every *)
(* fully written record of the thread and nothing else, in descending      *)
(* order of version marker, each with the checkpoint, metadata and parent  *)
(* that were put.                                                          *)
(***************************************************************************)
C8_ListYieldsEveryRecord ==
  \A t \in ThreadIds :
    ( /\ ret.op = "list"
      /\ ret.config = [thread_id |-> t, thread_ts |-> None]
      /\ ret.before = NoConfig
      /\ ret.limit = <<>> )
    => /\ ret.raised = ""
       /\ Len(ret.value) = Cardinality(LiveThreadPuts(t))
       /\ Descending
       /\ \A i \in LiveThreadPuts(t) : YieldedAs(i)

(***************************************************************************)
(* C9: list(thread, before=id_k) yields only tuples whose version marker   *)
(* is less than id_k's version as whole strings, and yields every fully    *)
(* written record of the thread whose marker is.                           *)
(***************************************************************************)
C9_ListBefore ==
  \A t \in ThreadIds :
    ( /\ ret.op = "list"
      /\ ret.config = [thread_id |-> t, thread_ts |-> None]
      /\ ret.before # NoConfig
      /\ ret.limit = <<>> )
    => /\ ret.raised = ""
       /\ \A v \in YieldedVersions : StrLess(v, ret.before.thread_ts)
       /\ \A i \in LiveThreadPuts(t) :
            StrLess(puts[i].checkpoint.ts, ret.before.thread_ts) => YieldedAs(i)

(***************************************************************************)
(* C10: list skips a record that lacks the checkpoint or the metadata      *)
(* field without raising, and still yields the fully written records that  *)
(* come after it in the order.                                             *)
(***************************************************************************)
C10_SkipsIncompleteOnly ==
  \A t \in ThreadIds, m \in ChainMarkers :
    ( /\ ret.op = "list"
      /\ ret.config = [thread_id |-> t, thread_ts |-> None]
      /\ ret.before = NoConfig
      /\ ret.limit = <<>>
      /\ RecordKey(t, m) \in Incomplete(store) )
    => /\ ret.raised = ""
       /\ m \notin YieldedVersions
       /\ \A i \in LiveThreadPuts(t) : StrLess(puts[i].checkpoint.ts, m) => YieldedAs(i)

(***************************************************************************)
(* C11: get_tuple returns absent and raises nothing when no record was put *)
(* to the thread (identity without a version) and when no record was put   *)
(* at the (thread_id, version) asked for; list over a thread no record was *)
(* put to yields nothing and raises nothing.                               *)
(***************************************************************************)
C11_AbsentNotError ==
  /\ ( /\ ret.op = "get_tuple"
       /\ ret.config.thread_ts = None
       /\ ThreadPuts(ret.config.thread_id) = {} )
     => ret.raised = "" /\ ret.value = <<>>
  /\ ( /\ ret.op = "get_tuple"
       /\ Truthy(ret.config.thread_ts)
       /\ \A i \in ThreadPuts(ret.config.thread_id) : puts[i].checkpoint.ts # ret.config.thread_ts )
     => ret.raised = "" /\ ret.value = <<>>
  /\ ( /\ ret.op = "list"
       /\ ret.config # NoConfig
       /\ ThreadPuts(ret.config.thread_id) = {} )
     => ret.raised = "" /\ ret.value = <<>>

\* the positions of the events of the last call of one kind
Events(kind) == {i \in 1..Len(trace) : trace[i].kind = kind}

\* the calls of either surface
SyncOps == {"put", "get_tuple", "list"}
AsyncOps == {"aput", "aget_tuple", "alist"}

\* the source the last call took its connection from
SourceOf(op) ==
  IF op \in SyncOps THEN saver.sync_connection ELSE saver.async_connection

\* the last call went through a pool
Pooled ==
  \/ ret.op \in SyncOps /\ saver.sync_connection = "ConnectionPool"
  \/ ret.op \in AsyncOps /\ saver.async_connection = "AsyncConnectionPool"

\* the last call went through a connection of the caller
Direct ==
  \/ ret.op \in SyncOps /\ saver.sync_connection = "Redis"
  \/ ret.op \in AsyncOps /\ saver.async_connection = "AsyncRedis"

(***************************************************************************)
(* C12: a call through a pool leases one connection and closes it when its *)
(* scope exits, whether it returns or raises: the close is the last thing  *)
(* the call does with the server, and after every completed call no leased *)
(* connection is left open, on either path.                                *)
(***************************************************************************)
C12_PooledReleased ==
  /\ conns.leased = 0
  /\ Pooled
     => /\ Cardinality(Events("lease")) = 1
        /\ Cardinality(Events("close")) = 1
        /\ \A l \in Events("lease"), c \in Events("close"), r \in Events("request") :
             l < r /\ r < c /\ trace[c].what = "pooled"

\* a call through the blocking pool had a request fail and raised
C12_Witness ==
  /\ Pooled
  /\ ret.op = "get_tuple"
  /\ ret.raised = "ConnectionError"
  /\ Events("lease") # {}

(***************************************************************************)
(* C13: a connection the caller supplied is used in place and never        *)
(* closed: no call closes anything when the saver holds a connection for   *)
(* its path, whether the call returns or raises.                           *)
(***************************************************************************)
C13_DirectNeverClosed ==
  /\ ~conns.direct_closed
  /\ Direct => Events("close") = {} /\ Events("lease") = {}

\* a call on the caller's own connection sent its request and raised
C13_Witness ==
  /\ Direct
  /\ ret.op = "put"
  /\ ret.raised = "ConnectionError"
  /\ Events("request") # {}

\* the sources each path accepts
Accepted(op) == IF op \in SyncOps THEN {"Redis", "ConnectionPool"}
                ELSE {"AsyncRedis", "AsyncConnectionPool"}

(***************************************************************************)
(* C14: a call on a path whose configured source is neither a connection   *)
(* nor a pool of that path (none configured included) raises ValueError,   *)
(* sends no request to the server, leases nothing and leaves the store as  *)
(* it was.                                                                 *)
(***************************************************************************)
C14_ConfigurationError ==
  [][(ret'.op \in SyncOps \cup AsyncOps /\ SourceOf(ret'.op) \notin Accepted(ret'.op))
       => /\ ret'.raised = "ValueError"
          /\ ret'.value = <<>>
          /\ \A i \in 1..Len(trace') : trace'[i].kind = "error"
          /\ store' = store
          /\ puts' = puts
    ]_vars

\* an aput on a saver constructed with a blocking pool only has raised, on a
\* store that holds a record
C14_Witness ==
  /\ ret.op = "aput"
  /\ saver.async_connection = "None"
  /\ saver.sync_connection = "ConnectionPool"
  /\ ret.raised = "ValueError"
  /\ store # <<>>

\* the requests of the last call that the server failed
Failed == {i \in Events("request") : trace[i].exc # ""}

(***************************************************************************)
(* C15: when a request of put, get_tuple or list (either surface) fails,   *)
(* the call raises that very error and returns nothing (a put no           *)
(* identity), and the failed request is the last one the call sends: it is *)
(* not sent again.                                                         *)
(***************************************************************************)
C15_FailurePropagates ==
  \A i \in Failed :
    /\ ret.raised = trace[i].exc
    /\ ret.value = <<>>
    /\ \A j \in Events("request") : j <= i

\* a list whose KEYS was answered had the HGETALL of a key fail
C15_Witness ==
  /\ ret.op = "list"
  /\ \E i \in Failed : trace[i].what = "HGETALL" /\ trace[i].exc = "ConnectionError"

(***************************************************************************)
(* C16: every call that raises has written exactly one error log entry,    *)
(* be the failure a request the server failed or a value the serializer    *)
(* could not write or read.                                                *)
(***************************************************************************)
C16_LoggedOnce ==
  (ret.op \in SyncOps \cup AsyncOps /\ ret.raised # "")
    => Cardinality(Events("error")) = 1

C18_BinarySafe ==
  (ret.op \in {"dumps", "loads"} /\ IsBinary(ret.obj))
    => /\ Len(ret.text) = 2 * Len(Payload(ret.obj))
       /\ \A i \in 1..Len(ret.text) : ret.text[i] \in {HexDigits[d] : d \in 1..16}
       /\ (ret.op = "loads" /\ ret.is_binary)
            => /\ ret.raised = ""
               /\ TypeOf(ret.value[1]) = "bytes"
               /\ ret.value[1].bytes = Payload(ret.obj)

\* two bytes with letters among their digits were written and read back
C18_Witness ==
  /\ ret.op = "loads"
  /\ ret.is_binary
  /\ ret.obj = [bytes |-> <<171, 255>>]
  /\ ret.value # <<>>

\* the saver has sources of the same kind for its two paths
Paired ==
  <<saver.sync_connection, saver.async_connection>>
    \in {<<"Redis", "AsyncRedis">>, <<"ConnectionPool", "AsyncConnectionPool">>, <<"None", "None">>}

\* what a call changed and handed back, its events aside
Effect(run) == [db |-> run.db, out |-> run.out]

(***************************************************************************)
(* C19: on every store and for equal arguments the two surfaces do the     *)
(* same: aput writes the record and returns the identity put does,         *)
(* aget_tuple returns what get_tuple returns, alist yields what list       *)
(* yields, and they raise the same errors when the same request fails or   *)
(* the source is not accepted; what an asynchronous read handed back is    *)
(* what the blocking read hands back on that store.                        *)
(***************************************************************************)
C19_SurfacesAgree ==
  /\ Paired =>
       \A fault \in Faults :
         /\ \A config \in IOConfigs, ts \in IOMarkers, metadata \in IOMetadata(Len(puts) + 1) :
              Effect(APutRun(saver.async_connection, store, config,
                             CheckpointOf(ts, Len(puts) + 1), metadata, fault))
                = Effect(PutRun(saver.sync_connection, store, config,
                                CheckpointOf(ts, Len(puts) + 1), metadata, fault))
         /\ \A config \in IOConfigs :
              {Effect(AGetTupleRun(saver.async_connection, store, config, all_keys, fault)) :
                 all_keys \in Keys(store, PatternOf(config.thread_id))}
                = {Effect(GetTupleRun(saver.sync_connection, store, config, all_keys, fault)) :
                     all_keys \in Keys(store, PatternOf(config.thread_id))}
         /\ \A config \in {NoConfig, [thread_id |-> IOThread, thread_ts |-> None]},
               limit \in Limits :
              {Effect(AListRun(saver.async_connection, store, config, NoConfig, limit, keys0, fault)) :
                 keys0 \in Keys(store, PatternOf(ListThread(config)))}
                = {Effect(ListRun(saver.sync_connection, store, config, NoConfig, limit, keys0, fault)) :
                     keys0 \in Keys(store, PatternOf(ListThread(config)))}
  /\ (ret.op = "aget_tuple" /\ Failed = {} /\ SourceOf("aget_tuple") \in Accepted("aget_tuple"))
       => [raised |-> ret.raised, value |-> ret.value] \in GetTupleOutcomes(store, ret.config)
  /\ (ret.op = "alist" /\ Failed = {} /\ SourceOf("alist") \in Accepted("alist"))
       => [raised |-> ret.raised, value |-> ret.value]
            \in ListOutcomes(store, ret.config, ret.before, ret.limit)

\* aget_tuple has returned the record an aput stored with a parent, beside another
C19_Witness ==
  /\ ret.op = "aget_tuple"
  /\ Len(ret.value) = 1
  /\ ret.value[1].parent_config # NoConfig
  /\ Cardinality(DOMAIN store) = 2
  /\ Paired

(***************************************************************************)
(* C20: a put writes checkpoint, metadata and parent_ts with one command.  *)
(* Whatever calls run at the same time, the hash a reader is about to be   *)
(* served for a key it reads is absent or holds exactly the three fields   *)
(* of one put to that key, and every tuple a read hands back carries the   *)
(* checkpoint, the metadata and the parent of one put.                     *)
(***************************************************************************)
\* the three fields put call i stored, as the specification gives them
WholeRecord(i) ==
  (Bytes("checkpoint") :> Bytes(<<"json", ToJson(puts[i].checkpoint)>>)) @@
  (Bytes("metadata") :> Bytes(<<"json", ToJson(puts[i].metadata)>>)) @@
  (Bytes("parent_ts") :>
     Bytes(IF puts[i].config.thread_ts \in {None, <<>>} THEN <<>> ELSE puts[i].config.thread_ts))

\* the callers suspended before an HGETALL
Readers == {p \in Procs : procs[p].pc = "hgetall"}

\* the hash at key is absent or is what one put to that key stored
AllOrNone(key) ==
  \/ key \notin DOMAIN store
  \/ \E i \in 1..Len(puts) :
       /\ RecordKey(puts[i].config.thread_id, puts[i].checkpoint.ts) = key
       /\ store[key] = WholeRecord(i)

C20_AtomicFieldGroup ==
  /\ \A p \in Readers : \A n \in 1..Len(procs[p].keys) : AllOrNone(procs[p].keys[n])
  /\ ret.op \in {"aget_tuple", "alist"}
       => /\ ret.raised \notin {"KeyError", "JSONDecodeError"}
          /\ \A n \in 1..Len(ret.value) :
               \E i \in 1..Len(puts) :
                 /\ ret.value[n].checkpoint = puts[i].checkpoint
                 /\ ret.value[n].metadata = puts[i].metadata
                 /\ ret.value[n].parent_config = ParentOfPut(i)

\* a reader is about to read a key that holds a record while a put to that
\* key is in flight, and a read has handed back a record
C20_Witness ==
  /\ \E p \in Readers, w \in Writers :
       /\ Head(procs[p].keys) \in DOMAIN store
       /\ Head(procs[p].keys)
            = RecordKey(procs[w].config.thread_id, procs[w].checkpoint.ts)
  /\ ret.op = "aget_tuple"
  /\ ret.value # <<>>

(***************************************************************************)
(* C21: two callers put to the same thread at the same time, with distinct *)
(* markers.  Neither put raises, both records are in the store once both   *)
(* puts have returned, and a get_tuple without a version that is called    *)
(* after both returned hands back the record with the greater marker, in   *)
(* whichever order the puts were served.                                   *)
(***************************************************************************)
\* the puts the server has served carry pairwise distinct markers
DistinctMarkers ==
  \A i, j \in 1..Len(puts) : i # j => puts[i].checkpoint.ts # puts[j].checkpoint.ts

\* the put with the greatest marker, compared as whole strings
Greatest ==
  CHOOSE i \in 1..Len(puts) :
    \A j \in 1..Len(puts) : ~StrLess(puts[i].checkpoint.ts, puts[j].checkpoint.ts)

\* caller p returns in this step from a get_tuple without a version that it
\* called after n puts had been served, no put was served since, and neither
\* was p cancelled nor its connection lost
ReadsLatestAfter(p, n) ==
  /\ procs[p].pc # "idle"
  /\ procs[p].op = "aget_tuple"
  /\ procs[p].config.thread_ts = None
  /\ procs[p].began = n
  /\ Len(puts) = n
  /\ procs'[p] = Idle
  /\ ret'.raised \notin {"ConnectionError", "CancelledError"}

C21_ConcurrentPutsLatest ==
  [][/\ ret'.op = "aput" => ret'.raised \in {"", "CancelledError"}
     /\ (Len(puts') = 2 /\ Writers' = {})
          => \A i \in 1..2 :
               RecordKey(puts'[i].config.thread_id, puts'[i].checkpoint.ts) \in DOMAIN store'
     /\ \A p \in Procs :
          (ReadsLatestAfter(p, 2) /\ DistinctMarkers)
            => /\ ret'.raised = ""
               /\ Len(ret'.value) = 1
               /\ ret'.value[1].checkpoint = puts[Greatest].checkpoint
    ]_vars

(***************************************************************************)
(* C22: threads are independent partitions, whatever strings the thread    *)
(* ids are.  A get_tuple or list called for a thread hands back only       *)
(* records that were put under that thread id, and a put under one thread  *)
(* id leaves what get_tuple and list hand back for every other thread id   *)
(* as it was.                                                              *)
(***************************************************************************)
C22_ThreadsIndependent ==
  [][/\ (ret'.op \in {"get_tuple", "list"} /\ ret'.config # NoConfig)
          => \A n \in 1..Len(ret'.value) :
               \E i \in ThreadPuts(ret'.config.thread_id) :
                 ret'.value[n].checkpoint = puts[i].checkpoint
     /\ Len(puts') > Len(puts)
          => \A t \in ThreadIds \ {puts'[Len(puts')].config.thread_id} :
               LET config == [thread_id |-> t, thread_ts |-> None]
               IN /\ GetTupleOutcomes(store', config) = GetTupleOutcomes(store, config)
                  /\ ListOutcomes(store', config, NoConfig, <<>>)
                       = ListOutcomes(store, config, NoConfig, <<>>)
    ]_vars

\* the marker of the record a tuple was read from: that of its checkpoint
OwnMarker(tuple) == tuple.checkpoint.ts

\* the parent link of every tuple the last read handed back, when it has
\* one, names a marker strictly smaller than the tuple's own
ParentsSmaller ==
  \A n \in 1..Len(ret.value) :
    ret.value[n].parent_config # NoConfig
      => StrLess(ret.value[n].parent_config.thread_ts, OwnMarker(ret.value[n]))

\* the puts so far were made in causal order on one thread: the first with
\* an identity without a version, each later one with the identity the put
\* before it returned and a greater marker
CausalOrder ==
  \A i \in 1..Len(puts) :
    /\ i = 1 => puts[i].config.thread_ts \in {None, <<>>}
    /\ i > 1 => /\ puts[i].config = puts[i - 1].returned
                /\ StrLess(puts[i - 1].checkpoint.ts, puts[i].checkpoint.ts)

(***************************************************************************)
(* C23 as stated: the parent link of every tuple get_tuple or list hands   *)
(* back, when it is not null, names a version marker strictly smaller than *)
(* the tuple's own, whatever the puts were.                                *)
(***************************************************************************)
C23_ParentSmaller ==
  ret.op \in {"get_tuple", "list"} => ParentsSmaller

(***************************************************************************)
(* C23 amended: when the puts were made in causal order with strictly      *)
(* increasing markers, the parent link of every tuple get_tuple or list    *)
(* hands back, when it is not null, names a marker strictly smaller than   *)
(* the marker of the tuple's checkpoint.                                   *)
(***************************************************************************)
C23_ParentSmallerInCausalOrder ==
  (ret.op \in {"get_tuple", "list"} /\ CausalOrder) => ParentsSmaller

\* the second record of a chain was read back with its parent link
C23_Witness ==
  /\ ret.op = "get_tuple"
  /\ CausalOrder
  /\ Len(puts) = 2
  /\ Len(ret.value) = 1
  /\ ret.value[1].parent_config # NoConfig

\* the parent_ts field of the record at key
ParentTs(key) == Decode(store[key][Bytes("parent_ts")])

\* the record of the chain's thread with the greatest marker
LatestKey ==
  RecordKey(ChainThread,
            CHOOSE m \in ChainMarkers :
              /\ RecordKey(ChainThread, m) \in DOMAIN store
              /\ \A o \in ChainMarkers :
                   RecordKey(ChainThread, o) \in DOMAIN store => ~StrLess(m, o))

\* the keys met when the parent links are followed from key, for at most
\* fuel records
RECURSIVE Walk(_, _)
Walk(key, fuel) ==
  IF fuel = 0 \/ key \notin DOMAIN store THEN <<>>
  ELSE <<key>> \o (IF ParentTs(key) = <<>> THEN <<>>
                   ELSE Walk(RecordKey(ChainThread, ParentTs(key)), fuel - 1))

(***************************************************************************)
(* C24: when every put to a thread is given the identity the put before it *)
(* returned (one without a version at first) and the markers strictly      *)
(* increase, then in every reachable state each record with a non-empty    *)
(* parent_ts has a record at (thread_id, parent_ts), and the parent links  *)
(* followed from the latest record pass every record of the thread exactly *)
(* once and end at the record whose parent_ts is empty.                    *)
(***************************************************************************)
C24_ChainIsWhole ==
  /\ \A key \in DOMAIN store :
       ParentTs(key) # <<>> => RecordKey(ChainThread, ParentTs(key)) \in DOMAIN store
  /\ store # <<>>
       => LET n == Cardinality(DOMAIN store)
              walk == Walk(LatestKey, n + 1)
          IN /\ Len(walk) = n
             /\ {walk[i] : i \in 1..Len(walk)} = DOMAIN store
             /\ ParentTs(walk[Len(walk)]) = <<>>

\* a chain of four records has been written
C24_Witness ==
  /\ ret.op = "put"
  /\ Len(puts) = 4
  /\ Cardinality(DOMAIN store) = 4
  /\ ParentTs(LatestKey) # <<>>

(***************************************************************************)
(* C26: list with no identity enumerates across all threads: it yields one *)
(* tuple for every fully written record of every thread, in descending     *)
(* order of version marker.                                                *)
(***************************************************************************)
C26_ListAllThreads ==
  ( /\ ret.op = "list"
    /\ ret.config = NoConfig
    /\ ret.before = NoConfig
    /\ ret.limit = <<>> )
  => /\ ret.raised = ""
     /\ Len(ret.value) = Cardinality(LivePuts)
     /\ \A i \in LivePuts :
          \E n \in 1..Len(ret.value) :
            /\ ret.value[n].checkpoint = puts[i].checkpoint
            /\ ret.value[n].metadata = puts[i].metadata
     /\ \A n \in 1..(Len(ret.value) - 1) :
          ~StrLess(OwnMarker(ret.value[n]), OwnMarker(ret.value[n + 1]))

MarkerOf(key) == CHOOSE m \in ChainMarkers : RecordKey(ChainThread, m) = key

\* the keys the last list is to choose from: those of the thread whose marker
\* is below before's, all of them without a before
Eligible ==
  {key \in DOMAIN store :
     ret.before = NoConfig \/ StrLess(MarkerOf(key), ret.before.thread_ts)}

\* the n keys of greatest marker among the eligible ones
Top(n) ==
  {key \in Eligible :
     Cardinality({o \in Eligible : StrLess(MarkerOf(key), MarkerOf(o))}) < n}

\* the HGETALL requests of the last call
Reads == {i \in Events("request") : trace[i].what = "HGETALL"}

(***************************************************************************)
(* C28: list filters by before, sorts descending, truncates to limit and   *)
(* then reads.  With limit n only the n keys of greatest marker are read;  *)
(* an incomplete record among them is skipped and no older record is read  *)
(* in its place, so fewer than n tuples can come back.                     *)
(***************************************************************************)
C28_TruncateThenRead ==
  (ret.op = "list" /\ ret.limit # <<>> /\ ret.raised = "")
    => /\ Cardinality(Reads) = Cardinality(Top(ret.limit[1]))
       /\ \A n \in 1..Len(ret.value) :
            RecordKey(ChainThread, OwnMarker(ret.value[n])) \in Top(ret.limit[1])
       /\ Len(ret.value) <= Cardinality(Top(ret.limit[1]) \ Incomplete(store))

(***************************************************************************)
(* C25: an aput that is cancelled while it is suspended (before its HSET   *)
(* was sent, or while it waits for the reply) leaves at its key no record  *)
(* or a complete record, the store writes or deletes nothing to make up    *)
(* for it, and the connection leased from the pool for the call is         *)
(* released.                                                               *)
(***************************************************************************)
\* caller p is cancelled in this step, inside its aput
Cancelled(p) ==
  /\ procs[p].pc = "hset"
  /\ procs'[p] = Idle
  /\ ret'.raised = "CancelledError"

\* the three fields the put of call c is to store, as the specification gives them
RecordOf(c) ==
  (Bytes("checkpoint") :> Bytes(<<"json", ToJson(c.checkpoint)>>)) @@
  (Bytes("metadata") :> Bytes(<<"json", ToJson(c.metadata)>>)) @@
  (Bytes("parent_ts") :>
     Bytes(IF c.config.thread_ts \in {None, <<>>} THEN <<>> ELSE c.config.thread_ts))

\* how often event e is in the sequence events
Count(events, e) == Cardinality({n \in 1..Len(events) : events[n] = e})

C25_CancelledAPut ==
  [][\A p \in Procs :
       Cancelled(p)
         => LET c == procs[p]
                key == RecordKey(c.config.thread_id, c.checkpoint.ts)
            IN /\ DOMAIN store \subseteq DOMAIN store'
               /\ DOMAIN store' \subseteq DOMAIN store \cup {key}
               /\ \A k \in DOMAIN store \ {key} : store'[k] = store[k]
               /\ key \in DOMAIN store'
                    => \/ store'[key] = RecordOf(c)
                       \/ \E i \in 1..Len(puts) :
                            /\ RecordKey(puts[i].config.thread_id, puts[i].checkpoint.ts) = key
                            /\ store'[key] = WholeRecord(i)
               /\ conns'.leased = conns.leased - 1
               /\ Count(trace', Lease("async")) = 1
               /\ Count(trace', Close("pooled")) = 1
               /\ trace'[Len(trace')] = Close("pooled")
    ]_vars

\* an aput was cancelled after the server had served its HSET: its record is
\* in the store, and no connection is leased
C25_Witness ==
  /\ ret.op = "aput"
  /\ ret.raised = "CancelledError"
  /\ puts # <<>>
  /\ LastPut.returned = NoConfig
  /\ LastPut.config = ret.config
  /\ RecordKey(LastPut.config.thread_id, LastPut.checkpoint.ts) \in DOMAIN store
  /\ conns.leased = 0

(***************************************************************************)
(* C29: alist enumerates and sorts the keys of its thread once, before it  *)
(* reads any record.  From then on the keys it still has to read only lose *)
(* their first element, one HGETALL at a time, whatever puts are served in *)
(* between: a key that is put after the enumeration is never read by that  *)
(* call and the order of the remaining keys does not change.  The fields   *)
(* of a record are read when its turn comes, not at the enumeration, and a *)
(* call that has returned reads nothing more: a new call enumerates anew.  *)
(***************************************************************************)
\* the callers inside an alist that has enumerated its keys
Listing == {p \in Procs : procs[p].pc = "hgetall" /\ procs[p].op = "alist"}

\* the HGETALL requests caller p has been answered
ReadSoFar(p) == Count(procs[p].events, Request("HGETALL", ""))

C29_EnumeratesOnce ==
  [][\A p \in Procs :
       /\ (procs[p].pc = "keys" /\ procs[p].op = "alist" /\ procs'[p].pc = "hgetall")
            => /\ procs'[p].keys
                    \in {SortedDesc(keys0) : keys0 \in Keys(store, PatternOf(procs[p].config.thread_id))}
               /\ ReadSoFar(p) = 0
               /\ procs'[p].events = procs[p].events \o <<Request("KEYS", "")>>
       /\ p \in Listing
            => \/ procs'[p] = procs[p]
               \/ procs'[p] = Idle
               \/ /\ procs'[p].pc = "hgetall"
                  /\ procs'[p].keys = Tail(procs[p].keys)
                  /\ procs'[p].events = procs[p].events \o <<Request("HGETALL", "")>>
                  /\ store' = store
       /\ (procs[p].pc = "idle" /\ procs'[p].pc # "idle" /\ procs'[p].op = "alist")
            => /\ procs'[p].pc = "keys"
               /\ procs'[p].keys = <<>>
               /\ procs'[p].value = <<>>
    ]_vars

\* an alist has enumerated one key and read none yet, and a put of a second
\* key has been served since
C29_Witness ==
  \E p \in Listing :
    /\ ReadSoFar(p) = 0
    /\ Len(procs[p].keys) = 1
    /\ Cardinality(DOMAIN store) = 2
    /\ procs[p].keys[1] \in DOMAIN store

(***************************************************************************)
(* C30: an alist over a pool leases one client when it is first pulled,    *)
(* holds that one lease over all its reads, and releases it exactly once   *)
(* when it ends: when its keys are exhausted, when a request raises, or    *)
(* when its consumer is cancelled after only part of the keys were read.   *)
(* It does end: every alist in flight returns.                             *)
(***************************************************************************)
\* the callers inside a call
InFlightNow == {p \in Procs : procs[p].pc # "idle"}

\* caller p is inside an alist
InAList(p) == procs[p].pc # "idle" /\ procs[p].op = "alist"

C30_OneLeaseReleasedOnce ==
  /\ [](conns.leased = Cardinality(InFlightNow))
  /\ [][\A p \in Procs :
          /\ (procs[p].pc = "idle" /\ procs'[p].pc # "idle" /\ procs'[p].op = "alist")
               => /\ conns'.leased = conns.leased + 1
                  /\ procs'[p].events = <<Lease("async")>>
          /\ (InAList(p) /\ procs'[p].pc # "idle")
               => /\ procs'[p] # procs[p] => conns' = conns
                  /\ Count(procs'[p].events, Lease("async")) = 1
                  /\ Count(procs'[p].events, Close("pooled")) = 0
          /\ (InAList(p) /\ procs'[p].pc = "idle")
               => /\ conns'.leased = conns.leased - 1
                  /\ Count(trace', Lease("async")) = 1
                  /\ Count(trace', Close("pooled")) = 1
                  /\ trace'[1] = Lease("async")
                  /\ \A n \in 1..Len(trace') :
                       trace'[n] = Close("pooled")
                         => \A m \in (n + 1)..Len(trace') : trace'[m].kind = "error"
       ]_vars
  /\ \A p \in Procs : InAList(p) ~> (procs[p].pc = "idle")

\* an alist has returned after it read two keys over one leased client, and
\* the client is back in the pool
C30_Witness ==
  /\ ret.op = "alist"
  /\ ret.raised = ""
  /\ trace = <<Lease("async"), Request("KEYS", ""), Request("HGETALL", ""),
               Request("HGETALL", ""), Close("pooled")>>
  /\ conns.leased = 0

(***************************************************************************)
(* C31: while puts to the same thread are in flight, a get_tuple without a *)
(* version hands back nothing or a record that is in the store, and the    *)
(* marker of the record it hands back is not smaller than the marker of    *)
(* any record of the thread whose put was served before the get_tuple was  *)
(* called.                                                                 *)
(***************************************************************************)
\* caller p is answered in this step: it returns from a get_tuple without a
\* version, and neither was it cancelled nor its connection lost
LatestAnswered(p) ==
  /\ procs[p].pc # "idle"
  /\ procs[p].op = "aget_tuple"
  /\ procs[p].config.thread_ts = None
  /\ procs'[p] = Idle
  /\ ret'.raised \notin {"ConnectionError", "CancelledError"}

C31_LatestNotOlderThanCompleted ==
  [][\A p \in Procs :
       LatestAnswered(p)
         => /\ ret'.raised = ""
            /\ Len(ret'.value) <= 1
            /\ \A n \in 1..Len(ret'.value) :
                 /\ \E i \in 1..Len(puts) :
                      /\ puts[i].config.thread_id = procs[p].config.thread_id
                      /\ puts[i].checkpoint = ret'.value[n].checkpoint
                      /\ RecordKey(puts[i].config.thread_id, puts[i].checkpoint.ts)
                           \in DOMAIN store
                 /\ \A j \in 1..procs[p].began :
                      ~StrLess(ret'.value[n].checkpoint.ts, puts[j].checkpoint.ts)
    ]_vars

(***************************************************************************)
(* C32: the tuples list yields identify the records they were read from.   *)
(* list over a thread that holds a fully written record yields a tuple,    *)
(* and every tuple it yields carries the thread id its record was put      *)
(* under and, as its version, the whole marker of that record, so that     *)
(* get_tuple on the identity of the tuple hands back the checkpoint, the   *)
(* metadata and the parent of the tuple.                                   *)
(***************************************************************************)
\* tuple names a record that is in the store, and get_tuple on the identity
\* of tuple gives what tuple holds
IdentifiesItsRecord(tuple) ==
  /\ \E i \in LivePuts :
       /\ puts[i].config.thread_id = tuple.config.thread_id
       /\ puts[i].checkpoint.ts = tuple.config.thread_ts
       /\ puts[i].checkpoint = tuple.checkpoint
  /\ \A out \in GetTupleOutcomes(store, tuple.config) :
       /\ out.raised = ""
       /\ Len(out.value) = 1
       /\ out.value[1].checkpoint = tuple.checkpoint
       /\ out.value[1].metadata = tuple.metadata
       /\ out.value[1].parent_config = tuple.parent_config

C33_IdentityEchoed ==
  /\ ret.op = "get_tuple"
       => \A n \in 1..Len(ret.value) :
            /\ ret.value[n].config = ret.config
            /\ ret.config.thread_ts = None => ret.value[n].config.thread_ts = None
  /\ \A config \in Configs :
       \A out \in GetTupleOutcomes(store, config) \cup AGetTupleOutcomes(store, config) :
         \A n \in 1..Len(out.value) : out.value[n].config = config

\* a get_tuple without a version handed back a record that has a marker
C33_Witness ==
  /\ ret.op = "get_tuple"
  /\ ret.config.thread_ts = None
  /\ ret.value # <<>>
  /\ ret.value[1].checkpoint.ts \in Markers
  /\ ret.value[1].config.thread_ts = None

(***************************************************************************)
(* C34: the parent of a tuple get_tuple hands back is null exactly when    *)
(* the parent_ts stored with its record is empty, and otherwise it is the  *)
(* thread of the call with the stored parent_ts as version.  An identity   *)
(* whose version is the empty string is treated like an identity without   *)
(* a version: put stores an empty parent_ts for both, and get_tuple        *)
(* resolves the latest record of the thread for both.                      *)
(***************************************************************************)
\* the hashes of db a get_tuple for config can have read tuple from
ReadFrom(db, config, tuple) ==
  {key \in MatchingKeys(db, PatternOf(config.thread_id)) :
     /\ Truthy(config.thread_ts) => key = Encode(KeyOf(config.thread_id, config.thread_ts))
     /\ Loads(Decode(db[key][Bytes("checkpoint")]), FALSE) = tuple.checkpoint
     /\ Loads(Decode(db[key][Bytes("metadata")]), FALSE) = tuple.metadata}

\* an outcome of get_tuple without the identity it echoes
WithoutIdentity(out) ==
  [raised |-> out.raised,
   value |-> [n \in 1..Len(out.value) |-> [out.value[n] EXCEPT !.config = NoConfig]]]

C34_ParentNullIffEmpty ==
  /\ \A config \in Configs :
       \A out \in GetTupleOutcomes(store, config) :
         \A n \in 1..Len(out.value) :
           \E key \in ReadFrom(store, config, out.value[n]) :
             LET parent_ts == Decode(store[key][Bytes("parent_ts")])
             IN /\ out.value[n].parent_config = NoConfig <=> parent_ts = <<>>
                /\ parent_ts # <<>>
                     => out.value[n].parent_config
                          = [thread_id |-> config.thread_id, thread_ts |-> parent_ts]
  /\ \A t \in ThreadIds :
       LET none == [thread_id |-> t, thread_ts |-> None]
           empty == [thread_id |-> t, thread_ts |-> <<>>]
       IN /\ {WithoutIdentity(out) : out \in GetTupleOutcomes(store, empty)}
               = {WithoutIdentity(out) : out \in GetTupleOutcomes(store, none)}
          /\ \A ts \in Markers :
               LET after == PutStore(store, empty, CheckpointOf(ts, 1), MetadataOf(1))
               IN /\ after = PutStore(store, none, CheckpointOf(ts, 1), MetadataOf(1))
                  /\ after[RecordKey(t, ts)][Bytes("parent_ts")] = Bytes(<<>>)
  /\ \A i \in LivePuts :
       puts[i].config.thread_ts \in {None, <<>>}
         <=> store[RecordKey(puts[i].config.thread_id, puts[i].checkpoint.ts)][Bytes("parent_ts")]
               = Bytes(<<>>)

\* a record was put with the empty string as the version of its identity,
\* and a get_tuple with the empty string as version handed it back, without
\* a parent
C34_Witness ==
  /\ ret.op = "get_tuple"
  /\ ret.config.thread_ts = <<>>
  /\ ret.value # <<>>
  /\ ret.value[1].parent_config = NoConfig
  /\ \E i \in LivePuts :
       /\ puts[i].config = ret.config
       /\ puts[i].checkpoint = ret.value[1].checkpoint

(***************************************************************************)
(* C35: the saver keeps no state of its own between calls.  No call        *)
(* changes the saver, what get_tuple and list hand back is fixed by the    *)
(* contents of the store and the arguments of the call (so the same call   *)
(* made twice with no put in between, through this saver or another one    *)
(* over the same store, gives equal results), and a record that was put is *)
(* handed back by a get_tuple on the identity put returned and yielded by  *)
(* a list of its thread, whichever saver over that store is asked.         *)
(***************************************************************************)
\* get_tuple and list have one outcome each on the store as it is
ReadsAreFunctions ==
  /\ \A config \in Configs : Cardinality(GetTupleOutcomes(store, config)) = 1
  /\ \A config \in ListConfigs, before \in Befores, limit \in Limits :
       Cardinality(ListOutcomes(store, config, before, limit)) = 1

\* put call i is handed back by get_tuple on the identity the put returned
GetTupleReturnsPut(i) ==
  \A out \in GetTupleOutcomes(store, puts[i].returned) :
    /\ out.raised = ""
    /\ Len(out.value) = 1
    /\ out.value[1].checkpoint = puts[i].checkpoint
    /\ out.value[1].metadata = puts[i].metadata

\* put call i is yielded by list on the thread it was put under
ListYieldsPut(i) ==
  \A out \in ListOutcomes(store, [thread_id |-> puts[i].config.thread_id, thread_ts |-> None],
                          NoConfig, <<>>) :
    /\ out.raised = ""
    /\ \E n \in 1..Len(out.value) :
         /\ out.value[n].checkpoint = puts[i].checkpoint
         /\ out.value[n].metadata = puts[i].metadata

C35_NoStateBetweenCalls ==
  [][/\ saver' = saver
     /\ ReadsAreFunctions'
     /\ \A i \in LivePuts' : GetTupleReturnsPut(i)' /\ ListYieldsPut(i)'
    ]_vars

====
